---- MODULE Spec2Model ----
(***************************************************************************)
(* A model of pixi-live2d-display's factory pipeline                       *)
(* (src/src/factory/Live2DFactory.ts), of its motion/expression task       *)
(* tracking, of the Cubism 2 internal model's per-frame update, focus,     *)
(* WebGL context and vertex methods                                        *)
(* (src/src/cubism2/Cubism2InternalModel.ts), and of the Cubism 2 motion   *)
(* manager (src/src/cubism2/Cubism2MotionManager.ts).                      *)
(*                                                                         *)
(* JavaScript runs one job at a time.  Every action below is one job: the  *)
(* synchronous code from a call or from the resumption of an `await` up to *)
(* the next suspension.  Jobs of independent promise chains (the middleware*)
(* chain and the Promise.all(...).then(...) chain of the 'ready' event)    *)
(* interleave in any order; host events (network completions, calls made   *)
(* by the application) happen only when no microtask is pending.           *)
(***************************************************************************)
EXTENDS Integers, Sequences, FiniteSets, TLC

VARIABLES
    \* ---- Live2DFactory.setupLive2DModel ----
    runtimes,        \* Live2DFactory.runtimes
    rtReady,         \* for each runtime object: has its ready() promise resolved
    srcArg,          \* the `source` argument of setupLive2DModel
    pc,              \* where the pipeline run is suspended
    ctx,             \* the Live2DFactoryContext: source, settings, internalModel
    live2dModel,     \* the Live2DModel's fields: internalModel, textures
    textureLoadings, \* the createTexture promises, one per texture
    promises,        \* textureLoaded, modelLoaded, readyEventEmitted
    locals,          \* the `runtime` constants captured by the suspended middlewares
    log,             \* events emitted, handlers run and external calls made, in order
    result,          \* the promise returned by setupLive2DModel
    \* ---- Live2DFactory.loadMotion / loadExpression ----
    motionTasksMap,      \* WeakMap<MotionManager, Record<group, Promise[]>>
    expressionTasksMap,  \* WeakMap<ExpressionManager, Promise[]>
    destroyListeners,    \* per manager: how often releaseTasks is registered on 'destroy'
    tasks,               \* the promise of every Live2DLoader.load(...).then(...).catch(...)
    lastOp,              \* the latest call or event, and the promise a call returned
    busyDestroyed,       \* per manager: was 'destroy' emitted while a load was pending
    \* ---- Cubism2InternalModel.update ----
    params,          \* coreModel's parameter values
    savedParams,     \* the values kept by coreModel.saveParam
    parts,           \* eyeBlink / physics / pose objects present
    focus,           \* focusController.x, focusController.y
    frame,           \* what the latest update() call did, in order
    drawn,           \* the parameter values the latest coreModel.update() saw
    lastUpdate,      \* the latest update() call: its `now`, and what motionManager.update returned
    frames,          \* number of update() calls so far
    \* ---- Cubism2MotionManager ----
    motions,         \* the Live2DMotion objects createMotion returned: fades, onFinishHandler
    queueManager,    \* the MotionQueueManager: its entries, oldest first, and entries made
    mgrCall,         \* the latest call on the motion manager, and what it returned
    \* ---- Cubism2InternalModel.updateWebGLContext / getDrawableVertices ----
    context,         \* the renderer's current WebGL context
    drawParamWebGL,  \* coreModel.drawParamWebGL: firstDraw, gl, glno and its properties
    clipManager,     \* coreModel.getModelContext().clipManager
    arrays,          \* the Float32Arrays alive: the core's vertex data and the copies handed out
    modelCall        \* the latest call on the internal model, and its outcome

pipeVars == <<runtimes, rtReady, srcArg, pc, ctx, live2dModel, textureLoadings,
              promises, locals, log, result>>
taskVars == <<motionTasksMap, expressionTasksMap, destroyListeners, tasks,
              lastOp, busyDestroyed>>
updVars  == <<params, savedParams, parts, focus, frame, drawn, lastUpdate, frames>>
mgrVars  == <<motions, queueManager, mgrCall>>
glVars   == <<context, drawParamWebGL, clipManager, arrays, modelCall>>
vars     == <<pipeVars, taskVars, updVars, mgrVars, glVars>>

None == "none"

\* context.settings / context.internalModel while they are undefined
NoSettings == [fmt |-> None, by |-> 0, nTex |-> 0, pose |-> FALSE, physics |-> FALSE]

NoInternalModel == [runtime |-> 0, pose |-> None, physics |-> None]

(***************************************************************************)
(* Bounds of the model.                                                    *)
(***************************************************************************)
MaxRegistered == 2   \* registerRuntime calls in one behaviour
MaxTextures   == 1   \* textures a settings object names
UserHandlers  == 1   \* listeners the application adds to each event of the model

(***************************************************************************)
(* The runtime objects an application may register (Live2DRuntime, lines   *)
(* 30-46).  Runtime 1 is a version 2 runtime, 2 and 3 are version 4; 1 and *)
(* 2 understand settings format "A", 3 understands format "B".             *)
(***************************************************************************)
RuntimeIds == {1, 2, 3}

Version(r) == IF r = 1 THEN 2 ELSE 4

Fmt(r) == IF r = 3 THEN "B" ELSE "A"

Formats == {"A", "B", "X"}   \* "X": a format no runtime understands

\* A ModelSettings object: its format, who made it (0: the application), and the
\* resources its manifest names.
Settings(fmt, by, nTex, pose, physics) ==
    [fmt |-> fmt, by |-> by, nTex |-> nTex, pose |-> pose, physics |-> physics]

\* The sources setupLive2DModel may be given: a URL string, a JSON object, a
\* ModelSettings instance, or something else (a number, undefined, ...).
Sources ==
    {src \in [kind : {"url", "json", "settings", "other"}, fmt : Formats,
              nTex : 0..MaxTextures, pose : BOOLEAN, physics : BOOLEAN,
              url : {"", "model.json"}] :
        /\ src.url = "model.json" <=> src.kind = "url"
        /\ src.kind = "other" => src.fmt = "X"
        /\ (src.fmt = "X" /\ src.kind # "settings")
               => (src.nTex = 0 /\ ~src.pose /\ ~src.physics)}

\* runtime.createModelSettings(json)
CreateModelSettings(r, src) ==
    IF src.fmt = Fmt(r)
    THEN Settings(src.fmt, r, src.nTex, src.pose, src.physics)
    ELSE NoSettings

\* runtime.test(settings)
Test(r, settings) == settings.fmt = Fmt(r)

(***************************************************************************)
(* The log.                                                                *)
(***************************************************************************)
E(k, n, i) == [k |-> k, n |-> n, i |-> i]

Call(s, n, i) == [s EXCEPT !.log = Append(@, E("call", n, i))]

\* A load promise settles: resolved (ok) or rejected
Settled(s, n, ok) ==
    [s EXCEPT !.log = Append(@, E(IF ok THEN "settled" ELSE "failed", n, 0))]

\* A call of the runtime throws
Threw(s, n, i) == [s EXCEPT !.log = Append(@, E("threw", n, i))]

\* live2dModel.emit(ev) for the listeners the application added: they run one
\* after the other, synchronously, inside emit.
UserDispatch(ev) ==
    <<E("emit", ev, 0)>> \o [i \in 1..UserHandlers |-> E("handler", ev, i)]
                         \o <<E("end", ev, 0)>>

\* Mutant of ReadyEventEmitted: 'ready' emitted right where the second of the two
\* promises is resolved, without the then().
ReadyEmittedInResolve(s) ==
    IF s.promises.textureLoaded /\ s.promises.modelLoaded /\ s.promises.ready = "pending"
    THEN [s EXCEPT !.promises.ready = "emitted", !.log = @ \o UserDispatch("ready")]
    ELSE s

\* Line 221: Promise.all([textureLoaded, modelLoaded]).then(() => emit('ready')).
\* Once both are resolved the emit is queued as a job of its own.
ReadyEventEmitted(s) ==
    IF s.promises.textureLoaded /\ s.promises.modelLoaded /\ s.promises.ready = "pending"
    THEN [s EXCEPT !.promises.ready = "queued"]
    ELSE s

\* Lines 214-215: the once() listeners that resolve textureLoaded / modelLoaded.
\* They were added first, so they run before the application's listeners.
OnceListener(s, ev) ==
    ReadyEventEmitted([s EXCEPT !.promises[ev] = TRUE,
                                !.log = Append(@, E("handler", ev, 0))])

\* live2dModel.emit(ev)
Emit(s, ev) ==
    LET s1 == [s EXCEPT !.log = Append(@, E("emit", ev, 0))]
        s2 == IF ev \in {"textureLoaded", "modelLoaded"} THEN OnceListener(s1, ev) ELSE s1
    IN  [s2 EXCEPT !.log = @ \o [i \in 1..UserHandlers |-> E("handler", ev, i)]
                             \o <<E("end", ev, 0)>>]

\* A throw inside the chain: every middleware passes the rejection on, the await
\* of line 223 throws, and the promise of setupLive2DModel rejects.
Throw(s, err) == [s EXCEPT !.pc = "failed", !.result = err]

(***************************************************************************)
(* Live2DFactory.registerRuntime                                           *)
(***************************************************************************)
\* Mutant of CompareRuntimes: (a, b) => a.version - b.version
CompareAscending(a, b) == Version(a) - Version(b)

\* Line 210: the comparator (a, b) => b.version - a.version
CompareRuntimes(a, b) == Version(b) - Version(a)

RECURSIVE InsertSorted(_, _)
\* One insertion of Array.prototype.sort, which is stable: x goes in front of the
\* first element it compares less than, behind all the others.
InsertSorted(x, sorted) ==
    IF sorted = <<>> THEN <<x>>
    ELSE IF CompareRuntimes(x, Head(sorted)) < 0 THEN <<x>> \o sorted
    ELSE <<Head(sorted)>> \o InsertSorted(x, Tail(sorted))

RECURSIVE Sort(_)
\* this.runtimes.sort(comparator)
Sort(seq) ==
    IF seq = <<>> THEN <<>>
    ELSE InsertSorted(seq[Len(seq)], Sort(SubSeq(seq, 1, Len(seq) - 1)))

\* Lines 206-211: push, then sort
RegisteredRuntimes(list, runtime) == Sort(Append(list, runtime))

\* runtimes.find(f => f.test(settings)): 0 when there is none
FindRuntime(settings) ==
    IF \E i \in 1..Len(runtimes) : Test(runtimes[i], settings)
    THEN runtimes[CHOOSE i \in 1..Len(runtimes) :
                      /\ Test(runtimes[i], settings)
                      /\ \A j \in 1..(i - 1) : ~Test(runtimes[j], settings)]
    ELSE 0

(***************************************************************************)
(* The middlewares, each up to its first suspension.  s is the state of    *)
(* the run, i the middleware's place in live2DModelMiddlewares; next() is  *)
(* Dispatch(s, i + 1).                                                     *)
(***************************************************************************)
RECURSIVE Dispatch(_, _)

\* Mutant of createInternalModel: the test of lines 171-173 left out.
createInternalModelUnchecked(s, i) ==
    IF s.ctx.settings # NoSettings
    THEN Call([s EXCEPT !.pc = "awaitMoc",
                        !.locals.createRt = FindRuntime(s.ctx.settings),
                        !.locals.createAt = i],
              "load:moc", 0)
    ELSE Throw(s, "TypeError: Missing settings.")

\* Lines 165-190, up to the await of line 175
createInternalModel(s, i) ==
    IF s.ctx.settings # NoSettings
    THEN LET runtime == FindRuntime(s.ctx.settings)
         IN  IF runtime = 0
             THEN Throw(s, "TypeError: Unknown model settings.")
             ELSE Call([s EXCEPT !.pc = "awaitMoc", !.locals.createRt = runtime,
                                 !.locals.createAt = i],
                       "load:moc", 0)
    ELSE Throw(s, "TypeError: Missing settings.")

\* Mutant of setupLive2DModel: the textures are requested after `await next()`
\* has started the chain below, not before.
setupLive2DModelTexturesLate(s, i) ==
    IF s.ctx.settings # NoSettings
    THEN LET n == s.ctx.settings.nTex
         IN  [Dispatch(s, i + 1) EXCEPT
                 !.textureLoadings = [t \in 1..n |-> "pending"],
                 !.log = @ \o [t \in 1..n |-> E("call", "createTexture", t)]]
    ELSE Throw(s, "TypeError: Missing settings.")

\* Lines 139-163, up to the await of line 149
setupLive2DModel(s, i) ==
    IF s.ctx.settings # NoSettings
    THEN LET n  == s.ctx.settings.nTex
             s1 == [s EXCEPT !.textureLoadings = [t \in 1..n |-> "pending"],
                             !.log = @ \o [t \in 1..n |-> E("call", "createTexture", t)]]
         IN  Dispatch(s1, i + 1)
    ELSE Throw(s, "TypeError: Missing settings.")

\* Lines 98-100
setupOptionals(s, i) == Dispatch(s, i + 1)

\* Lines 87-96
waitUntilReady(s, i) ==
    IF s.ctx.settings # NoSettings /\ FindRuntime(s.ctx.settings) # 0
    THEN Call([s EXCEPT !.pc = "awaitReady",
                        !.locals.readyRt = FindRuntime(s.ctx.settings),
                        !.locals.readyAt = i],
              "ready", FindRuntime(s.ctx.settings))
    ELSE Dispatch(s, i + 1)

\* The for loop of lines 72-81: the runtimes asked, in order, up to and including
\* the first that returns settings.
Consulted(src) ==
    LET hits == {k \in 1..Len(runtimes) : CreateModelSettings(runtimes[k], src) # NoSettings}
        last == IF hits = {} THEN Len(runtimes)
                ELSE CHOOSE k \in hits : \A h \in hits : k <= h
    IN  SubSeq(runtimes, 1, last)

\* Mutant of jsonToSettings: 'settingsLoaded' emitted for a ModelSettings source too.
jsonToSettingsAlwaysEmits(s, i) ==
    IF s.ctx.source.kind = "settings"
    THEN Dispatch(Emit([s EXCEPT !.ctx.settings =
                            Settings(s.ctx.source.fmt, 0, s.ctx.source.nTex,
                                     s.ctx.source.pose, s.ctx.source.physics)],
                       "settingsLoaded"), i + 1)
    ELSE IF s.ctx.source.kind = "json"
    THEN LET asked == Consulted(s.ctx.source)
             made == IF asked = <<>> THEN NoSettings
                     ELSE CreateModelSettings(asked[Len(asked)], s.ctx.source)
         IN  IF made # NoSettings
             THEN Dispatch(Emit([s EXCEPT !.ctx.settings = made], "settingsLoaded"), i + 1)
             ELSE Throw(s, "TypeError: Unknown settings format.")
    ELSE Throw(s, "TypeError: Unknown settings format.")

\* Mutant of jsonToSettings: the throw of line 84 left out, next() called instead.
jsonToSettingsNoThrow(s, i) ==
    IF s.ctx.source.kind = "settings"
    THEN Dispatch([s EXCEPT !.ctx.settings =
                       Settings(s.ctx.source.fmt, 0, s.ctx.source.nTex,
                                s.ctx.source.pose, s.ctx.source.physics)], i + 1)
    ELSE IF s.ctx.source.kind = "json"
    THEN LET asked == Consulted(s.ctx.source)
             made == IF asked = <<>> THEN NoSettings
                     ELSE CreateModelSettings(asked[Len(asked)], s.ctx.source)
         IN  IF made # NoSettings
             THEN Dispatch(Emit([s EXCEPT !.ctx.settings = made], "settingsLoaded"), i + 1)
             ELSE Dispatch(s, i + 1)
    ELSE Dispatch(s, i + 1)

\* Lines 66-85
jsonToSettings(s, i) ==
    IF s.ctx.source.kind = "settings"
    THEN Dispatch([s EXCEPT !.ctx.settings =
                       Settings(s.ctx.source.fmt, 0, s.ctx.source.nTex,
                                s.ctx.source.pose, s.ctx.source.physics)], i + 1)
    ELSE IF s.ctx.source.kind = "json"
    THEN LET asked == Consulted(s.ctx.source)
             s1 == [s EXCEPT !.log = @ \o [k \in 1..Len(asked) |->
                                              E("call", "createModelSettings", asked[k])]]
             made == IF asked = <<>> THEN NoSettings
                     ELSE CreateModelSettings(asked[Len(asked)], s.ctx.source)
         IN  IF made # NoSettings
             THEN Dispatch(Emit([s1 EXCEPT !.ctx.settings = made], "settingsLoaded"), i + 1)
             ELSE Throw(s1, "TypeError: Unknown settings format.")
    ELSE Throw(s, "TypeError: Unknown settings format.")

\* Lines 48-64, up to the await of line 50
urlToJSON(s, i) ==
    IF s.ctx.source.kind = "url"
    THEN Call([s EXCEPT !.pc = "awaitJSON", !.locals.jsonAt = i], "load:json", 0)
    ELSE Dispatch(s, i + 1)

\* Lines 195-197
live2DModelMiddlewares ==
    <<"urlToJSON", "jsonToSettings", "waitUntilReady", "setupOptionals",
      "setupLive2DModel", "createInternalModel">>

\* runMiddlewares' dispatch(i): run the i-th middleware, whose next() is
\* dispatch(i + 1); past the end of the list it resolves at once.
Dispatch(s, i) ==
    IF i > Len(live2DModelMiddlewares) THEN s
    ELSE CASE live2DModelMiddlewares[i] = "urlToJSON"           -> urlToJSON(s, i)
           [] live2DModelMiddlewares[i] = "jsonToSettings"      -> jsonToSettings(s, i)
           [] live2DModelMiddlewares[i] = "waitUntilReady"      -> waitUntilReady(s, i)
           [] live2DModelMiddlewares[i] = "setupOptionals"      -> setupOptionals(s, i)
           [] live2DModelMiddlewares[i] = "setupLive2DModel"    -> setupLive2DModel(s, i)
           [] live2DModelMiddlewares[i] = "createInternalModel" -> createInternalModel(s, i)

(***************************************************************************)
(* The run of Live2DFactory.setupLive2DModel as a state machine.           *)
(***************************************************************************)
Cur ==
    [pc |-> pc, ctx |-> ctx, live2dModel |-> live2dModel,
     textureLoadings |-> textureLoadings, promises |-> promises,
     locals |-> locals, log |-> log, result |-> result]

Set(s) ==
    /\ pc' = s.pc
    /\ ctx' = s.ctx
    /\ live2dModel' = s.live2dModel
    /\ textureLoadings' = s.textureLoadings
    /\ promises' = s.promises
    /\ locals' = s.locals
    /\ log' = s.log
    /\ result' = s.result
    /\ UNCHANGED <<taskVars, updVars, mgrVars, glVars>>

\* Promise.all(textureLoadings) has settled: every texture is loaded, or one failed.
TexturesDecided(tl) ==
    \/ \E t \in DOMAIN tl : tl[t] = "failed"
    \/ \A t \in DOMAIN tl : tl[t] = "loaded"

\* No job is queued: the run waits for the network or for a runtime, or is over.
Quiescent ==
    /\ promises.ready # "queued"
    /\ \/ pc \in {"idle", "awaitJSON", "awaitMoc", "awaitPose", "awaitPhysics",
                   "done", "failed"}
       \/ pc = "awaitReady" /\ ~rtReady[locals.readyRt]
       \/ pc = "awaitTextures" /\ ~TexturesDecided(textureLoadings)

\* Mutant of ReadyEventSettled: line 230 left out.
ReadyEventNotAwaited(s) == TRUE

\* Line 230: await readyEventEmitted
ReadyEventSettled(s) == s.promises.ready = "emitted"

\* Lines 223-230: runMiddlewares has resolved; setupLive2DModel awaits the event.
ChainResolved(s) == [s EXCEPT !.pc = "awaitReadyEvent"]

\* Mutant of PhysicsStep: the physics block of lines 122-134 left out.
PhysicsStepSkipped(s) == ChainResolved(s)

\* Lines 122-134, up to the await
PhysicsStep(s) ==
    IF s.ctx.settings.physics
    THEN Call([s EXCEPT !.pc = "awaitPhysics"], "load:physics", 0)
    ELSE ChainResolved(s)

\* Lines 102-121: setupOptionals after its `await next()`, up to the next await
SetupOptionalsResumed(s) ==
    IF s.ctx.internalModel # NoInternalModel
    THEN LET runtime == FindRuntime(s.ctx.settings)
         IN  IF runtime # 0
             THEN IF s.ctx.settings.pose
                  THEN Call([s EXCEPT !.pc = "awaitPose", !.locals.optRt = runtime],
                            "load:pose", 0)
                  ELSE PhysicsStep([s EXCEPT !.locals.optRt = runtime])
             ELSE ChainResolved(s)
    ELSE ChainResolved(s)

\* Lines 151-158: the setupLive2DModel middleware after its `await next()`
SetupLive2DModelResumed(s) ==
    IF s.ctx.internalModel # NoInternalModel
    THEN [Emit([s EXCEPT !.live2dModel.internalModel = "context.internalModel"],
               "modelLoaded")
          EXCEPT !.pc = "awaitTextures"]
    ELSE Throw(s, "TypeError: Missing internal model.")

\* Live2DFactory.registerRuntime(runtime), called by the application
RegisterRuntime(r) ==
    /\ Quiescent
    /\ Len(runtimes) < MaxRegistered
    /\ runtimes' = RegisteredRuntimes(runtimes, r)
    /\ UNCHANGED <<rtReady, srcArg, pc, ctx, live2dModel, textureLoadings, promises,
                   locals, log, result, taskVars, updVars, mgrVars, glVars>>

\* The promise of a registered runtime's ready() resolves
RuntimeReady(r) ==
    /\ Quiescent
    /\ \E k \in 1..Len(runtimes) : runtimes[k] = r
    /\ ~rtReady[r]
    /\ rtReady' = [rtReady EXCEPT ![r] = TRUE]
    /\ UNCHANGED <<runtimes, srcArg, pc, ctx, live2dModel, textureLoadings, promises,
                   locals, log, result, taskVars, updVars, mgrVars, glVars>>

\* A createTexture promise settles
TextureSettles(t, ok) ==
    /\ Quiescent
    /\ t \in DOMAIN textureLoadings
    /\ textureLoadings[t] = "pending"
    /\ textureLoadings' = [textureLoadings EXCEPT ![t] = IF ok THEN "loaded" ELSE "failed"]
    /\ UNCHANGED <<runtimes, rtReady, srcArg, pc, ctx, live2dModel, promises, locals,
                   log, result, taskVars, updVars, mgrVars, glVars>>

\* Lines 213-227: the call, up to the first suspension of the chain
SetupCall ==
    /\ pc = "idle"
    /\ Set(Dispatch([Cur EXCEPT !.ctx.source = srcArg], 1))
    /\ UNCHANGED <<runtimes, rtReady, srcArg>>

\* Lines 50-63: the settings JSON arrives, or its load fails
JSONLoaded(ok) ==
    /\ pc = "awaitJSON"
    /\ IF ok
       THEN LET data == [srcArg EXCEPT !.kind = "json", !.url = ctx.source.url]
                s1   == Emit([Cur EXCEPT !.ctx.source = data], "settingsJSONLoaded")
            IN  Set(Dispatch(s1, locals.jsonAt + 1))
       ELSE Set(Throw(Cur, "Error: load json"))
    /\ UNCHANGED <<runtimes, rtReady, srcArg>>

\* Line 92: runtime.ready().then(next)
ReadyResolved ==
    /\ pc = "awaitReady"
    /\ rtReady[locals.readyRt]
    /\ Set(Dispatch(Cur, locals.readyAt + 1))
    /\ UNCHANGED <<runtimes, rtReady, srcArg>>

\* Lines 175-186, then lines 151-158: the moc data arrives (or its load fails),
\* the core model and the internal model are made (or a constructor throws),
\* next() resolves and the setupLive2DModel middleware goes on.  The log notes
\* when every texture was loaded by then already.
MocLoaded(ok, coreOk, internalOk) ==
    /\ pc = "awaitMoc"
    /\ LET rt == locals.createRt
           s0 == IF /\ textureLoadings # <<>>
                    /\ \A t \in DOMAIN textureLoadings : textureLoadings[t] = "loaded"
                 THEN Settled(Cur, "textures", TRUE)
                 ELSE Cur
           s1 == Call(s0, "createCoreModel", rt)
           s2 == Call(s1, "createInternalModel", rt)
           s3 == [s2 EXCEPT !.ctx.internalModel =
                                [runtime |-> rt, pose |-> None, physics |-> None]]
       IN  IF ~ok THEN Set(Throw(s0, "Error: load moc"))
           ELSE IF ~coreOk THEN Set(Throw(s1, "Error: createCoreModel"))
           ELSE IF ~internalOk THEN Set(Throw(s2, "Error: createInternalModel"))
           ELSE Set(SetupLive2DModelResumed(Dispatch(s3, locals.createAt + 1)))
    /\ UNCHANGED <<runtimes, rtReady, srcArg>>

\* Mutant of TexturesLoaded: Promise.allSettled in place of Promise.all.
TexturesAllSettled ==
    /\ pc = "awaitTextures"
    /\ \A t \in DOMAIN textureLoadings : textureLoadings[t] # "pending"
    /\ Set(SetupOptionalsResumed(
               Emit([Cur EXCEPT !.live2dModel.textures = "textures"], "textureLoaded")))
    /\ UNCHANGED <<runtimes, rtReady, srcArg>>

\* Lines 158-159, then lines 102-121: Promise.all(textureLoadings) settles
TexturesLoaded ==
    /\ pc = "awaitTextures"
    /\ TexturesDecided(textureLoadings)
    /\ IF \E t \in DOMAIN textureLoadings : textureLoadings[t] = "failed"
       THEN Set(Throw(Cur, "Error: texture"))
       ELSE Set(SetupOptionalsResumed(
                    Emit([Cur EXCEPT !.live2dModel.textures = "textures"],
                         "textureLoaded")))
    /\ UNCHANGED <<runtimes, rtReady, srcArg>>

\* Mutant of PoseLoaded: the .catch(...) of line 120 left out.
PoseLoadedFatal(ok, createOk) ==
    /\ pc = "awaitPose"
    /\ LET s0 == Settled(Cur, "pose", ok)
           s1 == Call(s0, "createPose", locals.optRt)
           s2 == Emit([s1 EXCEPT !.ctx.internalModel.pose = "pose"], "poseLoaded")
       IN  IF ~ok THEN Set(Throw(s0, "Error: load pose"))
           ELSE IF ~createOk
           THEN Set(Throw(Threw(s1, "createPose", locals.optRt), "Error: createPose"))
           ELSE Set(PhysicsStep(s2))
    /\ UNCHANGED <<runtimes, rtReady, srcArg>>

\* Lines 116-121, then lines 122-134: the pose load settles
PoseLoaded(ok, createOk) ==
    /\ pc = "awaitPose"
    /\ LET s0 == Settled(Cur, "pose", ok)
           s1 == Call(s0, "createPose", locals.optRt)
           s2 == Emit([s1 EXCEPT !.ctx.internalModel.pose = "pose"], "poseLoaded")
       IN  Set(PhysicsStep(IF ~ok THEN s0
                           ELSE IF ~createOk THEN Threw(s1, "createPose", locals.optRt)
                           ELSE s2))
    /\ UNCHANGED <<runtimes, rtReady, srcArg>>

\* Lines 129-136: the physics load settles and the chain resolves
PhysicsLoaded(ok, createOk) ==
    /\ pc = "awaitPhysics"
    /\ LET s0 == Settled(Cur, "physics", ok)
           s1 == Call(s0, "createPhysics", locals.optRt)
           s2 == Emit([s1 EXCEPT !.ctx.internalModel.physics = "physics"], "physicsLoaded")
       IN  Set(ChainResolved(IF ~ok THEN s0
                             ELSE IF ~createOk THEN Threw(s1, "createPhysics", locals.optRt)
                             ELSE s2))
    /\ UNCHANGED <<runtimes, rtReady, srcArg>>

\* Line 221: the queued then() callback runs
EmitReady ==
    /\ promises.ready = "queued"
    /\ Set(Emit([Cur EXCEPT !.promises.ready = "emitted"], "ready"))
    /\ UNCHANGED <<runtimes, rtReady, srcArg>>

\* Lines 230-232
EmitLoad ==
    /\ pc = "awaitReadyEvent"
    /\ ReadyEventSettled(Cur)
    /\ Set([Emit(Cur, "load") EXCEPT !.pc = "done", !.result = "resolved"])
    /\ UNCHANGED <<runtimes, rtReady, srcArg>>

PipeNext ==
    \/ \E r \in RuntimeIds : RegisterRuntime(r)
    \/ \E r \in RuntimeIds : RuntimeReady(r)
    \/ \E t \in 1..MaxTextures, ok \in BOOLEAN : TextureSettles(t, ok)
    \/ SetupCall
    \/ \E ok \in BOOLEAN : JSONLoaded(ok)
    \/ ReadyResolved
    \/ \E ok, coreOk, internalOk \in BOOLEAN : MocLoaded(ok, coreOk, internalOk)
    \/ TexturesLoaded
    \/ \E ok, createOk \in BOOLEAN : PoseLoaded(ok, createOk)
    \/ \E ok, createOk \in BOOLEAN : PhysicsLoaded(ok, createOk)
    \/ EmitReady
    \/ EmitLoad

\* Before the call: no runtime is registered, the application has chosen a source.
\* The task maps and the Cubism 2 model are at rest in this specification.
InitSetup ==
    /\ runtimes = <<>>
    /\ rtReady = [r \in RuntimeIds |-> FALSE]
    /\ srcArg \in Sources
    /\ pc = "idle"
    /\ ctx = [source |-> srcArg, settings |-> NoSettings, internalModel |-> NoInternalModel]
    /\ live2dModel = [internalModel |-> None, textures |-> None]
    /\ textureLoadings = <<>>
    /\ promises = [textureLoaded |-> FALSE, modelLoaded |-> FALSE, ready |-> "pending"]
    /\ locals = [jsonAt |-> 0, readyAt |-> 0, readyRt |-> 0, createAt |-> 0,
                 createRt |-> 0, optRt |-> 0]
    /\ log = <<>>
    /\ result = "pending"
    /\ motionTasksMap = <<>>
    /\ expressionTasksMap = <<>>
    /\ destroyListeners = <<>>
    /\ tasks = <<>>
    /\ lastOp = None
    /\ busyDestroyed = <<>>
    /\ params = <<>>
    /\ savedParams = <<>>
    /\ parts = {}
    /\ focus = <<0, 0>>
    /\ frame = <<>>
    /\ drawn = <<>>
    /\ lastUpdate = None
    /\ frames = 0
    /\ motions = <<>>
    /\ queueManager = None
    /\ mgrCall = None
    /\ context = 0
    /\ drawParamWebGL = None
    /\ clipManager = None
    /\ arrays = <<>>
    /\ modelCall = None

SpecSetup == InitSetup /\ [][PipeNext]_vars

\* The jobs the promises queue are run: the then() callback of line 221 and the
\* continuation of setupLive2DModel after the await of line 230.
SpecSetupFair == SpecSetup /\ WF_vars(EmitReady) /\ WF_vars(EmitLoad)

(***************************************************************************)
(* Live2DFactory.loadMotion, loadExpression and releaseTasks                *)
(***************************************************************************)
MaxLoads == 2   \* Live2DLoader.load invocations in one behaviour

MotionManagers == {"motionManager"}

ExpressionManagers == {"expressionManager"}

Managers == MotionManagers \cup ExpressionManagers

\* motionManager.definitions: the indices that hold a definition, per group
MotionDefinitions == [idle |-> {0, 1}, tap |-> {0}]

MotionGroups == DOMAIN MotionDefinitions

MotionIndices == UNION {MotionDefinitions[g] : g \in MotionGroups}

\* expressionManager.definitions
ExpressionIndices == {0}

\* Line 237: motionManager.definitions[group]?.[index]
MotionDefinition(group, index) ==
    group \in MotionGroups /\ index \in MotionDefinitions[group]

\* Line 290: expressionManager.definitions[index]
ExpressionDefinition(index) == index \in ExpressionIndices

\* A task array: for each index the promise it holds, 0 for none
NoItems(indices) == [i \in indices |-> 0]

\* motionTasksMap.get(m): undefined, or for each group undefined or a task array
NoTaskGroup == [has |-> FALSE, items |-> NoItems(MotionIndices)]

NoMotionTasks == [has |-> FALSE, groups |-> [g \in MotionGroups |-> NoTaskGroup]]

\* expressionTasksMap.get(m): undefined or a task array
NoExpressionTasks == [has |-> FALSE, items |-> NoItems(ExpressionIndices)]

\* A call or an event: for a call, the promise it returned (0: a new
\* Promise.resolve(undefined)) and whether it started a load.
Op(op, mgr, group, index, ret, fresh) ==
    [op |-> op, mgr |-> mgr, group |-> group, index |-> index, ret |-> ret,
     fresh |-> fresh]

\* The promise Live2DLoader.load(...).then(...).catch(...) of lines 263-278 (or
\* 309-324) when made: `load` is the state of the promise of Live2DLoader.load,
\* `state` that of the whole chain, which is the promise kept in the task array.
NewTask(mgr, group, index) ==
    [mgr |-> mgr, group |-> group, index |-> index, load |-> "pending",
     state |-> "pending"]

\* Mutant of NullishAssign: `=` in place of `??=`.
PlainAssign(held, fresh) == fresh

\* Lines 263 and 309: taskGroup[index] ??= <a new load>
NullishAssign(held, fresh) == IF held # 0 THEN held ELSE fresh

\* Mutant of OnceDestroy: the listeners('destroy').includes(...) test left out.
OnceDestroyUnguarded(n) == n + 1

\* Lines 243-245 and 296-298: the number of releaseTasks listeners on 'destroy'
\* after `if (!listeners('destroy').includes(releaseTasks)) once('destroy', ...)`
OnceDestroy(n) == IF n = 0 THEN 1 ELSE n

\* Mutant of Caught: the .catch(...) of lines 278 and 324 left out.
NotCaught(outcome) == outcome

\* Lines 278 and 324: .catch(e => logger.warn(...)) turns a rejection into a
\* promise resolved with undefined.
Caught(outcome) == IF outcome = "rejected" THEN "undefined" ELSE outcome

\* Lines 269-277 and 315-323: what the then() callback settles to
Then(ok, createOk) ==
    IF ~ok THEN "rejected" ELSE IF createOk THEN "value" ELSE "rejected"

\* Mutant of releaseTasks: the instanceof test inverted.
releaseTasksWrongMap(target) ==
    IF target \notin MotionManagers
    THEN [motion |-> [m \in DOMAIN motionTasksMap |->
                         IF m = target THEN NoMotionTasks ELSE motionTasksMap[m]],
          expression |-> expressionTasksMap]
    ELSE [motion |-> motionTasksMap,
          expression |-> [m \in DOMAIN expressionTasksMap |->
                             IF m = target THEN NoExpressionTasks
                             ELSE expressionTasksMap[m]]]

\* Lines 334-340
releaseTasks(target) ==
    IF target \in MotionManagers
    THEN [motion |-> [motionTasksMap EXCEPT ![target] = NoMotionTasks],
          expression |-> expressionTasksMap]
    ELSE [motion |-> motionTasksMap,
          expression |-> [expressionTasksMap EXCEPT ![target] = NoExpressionTasks]]

\* The argument the manager's emit('destroy', ...) hands to its listeners
\* (MotionManager.destroy and ExpressionManager.destroy, cubism-common)
DestroyArgument(m) == m

\* Lines 235-286
LoadMotion(m, group, index) ==
    IF ~MotionDefinition(group, index)
    THEN /\ lastOp' = Op("loadMotion", m, group, index, 0, FALSE)
         /\ UNCHANGED <<motionTasksMap, expressionTasksMap, destroyListeners, tasks,
                        busyDestroyed, pipeVars, updVars,
                   mgrVars, glVars>>
    ELSE LET got       == motionTasksMap[m]
             tasks1    == IF got.has THEN got ELSE [NoMotionTasks EXCEPT !.has = TRUE]
             group0    == tasks1.groups[group]
             taskGroup == IF group0.has THEN group0 ELSE [NoTaskGroup EXCEPT !.has = TRUE]
             fresh     == Len(tasks) + 1
             promise   == NullishAssign(taskGroup.items[index], fresh)
         IN  /\ promise = fresh => Len(tasks) < MaxLoads
             /\ destroyListeners' = [destroyListeners EXCEPT ![m] = OnceDestroy(@)]
             /\ motionTasksMap' =
                    [motionTasksMap EXCEPT ![m] =
                        [tasks1 EXCEPT !.groups[group] =
                            [taskGroup EXCEPT !.items[index] = promise]]]
             /\ tasks' = IF promise = fresh
                         THEN Append(tasks, NewTask(m, group, index))
                         ELSE tasks
             /\ lastOp' = Op("loadMotion", m, group, index, promise, promise = fresh)
             /\ UNCHANGED <<expressionTasksMap, busyDestroyed, pipeVars, updVars,
                   mgrVars, glVars>>

\* Lines 288-332
LoadExpression(m, index) ==
    IF ~ExpressionDefinition(index)
    THEN /\ lastOp' = Op("loadExpression", m, None, index, 0, FALSE)
         /\ UNCHANGED <<motionTasksMap, expressionTasksMap, destroyListeners, tasks,
                        busyDestroyed, pipeVars, updVars,
                   mgrVars, glVars>>
    ELSE LET got     == expressionTasksMap[m]
             tasks1  == IF got.has THEN got ELSE [NoExpressionTasks EXCEPT !.has = TRUE]
             fresh   == Len(tasks) + 1
             promise == NullishAssign(tasks1.items[index], fresh)
         IN  /\ promise = fresh => Len(tasks) < MaxLoads
             /\ destroyListeners' = [destroyListeners EXCEPT ![m] = OnceDestroy(@)]
             /\ expressionTasksMap' =
                    [expressionTasksMap EXCEPT ![m] =
                        [tasks1 EXCEPT !.items[index] = promise]]
             /\ tasks' = IF promise = fresh
                         THEN Append(tasks, NewTask(m, None, index))
                         ELSE tasks
             /\ lastOp' = Op("loadExpression", m, None, index, promise, promise = fresh)
             /\ UNCHANGED <<motionTasksMap, busyDestroyed, pipeVars, updVars,
                   mgrVars, glVars>>

\* Mutant of MotionLoadSettles: the entry deleted in a finally(), not in then().
MotionLoadSettlesAlwaysDeletes(t, ok, createOk) ==
    /\ t \in DOMAIN tasks
    /\ tasks[t].state = "pending"
    /\ tasks[t].mgr \in MotionManagers
    /\ LET m     == tasks[t].mgr
           group == tasks[t].group
           index == tasks[t].index
           taskGroup == motionTasksMap[m].has /\ motionTasksMap[m].groups[group].has
       IN  /\ motionTasksMap' =
                  IF taskGroup
                  THEN [motionTasksMap EXCEPT ![m].groups[group].items[index] = 0]
                  ELSE motionTasksMap
           /\ tasks' = [tasks EXCEPT ![t].load = IF ok THEN "resolved" ELSE "rejected",
                                     ![t].state = Caught(Then(ok, createOk))]
           /\ lastOp' = Op("settled", None, None, 0, 0, FALSE)
    /\ UNCHANGED <<expressionTasksMap, destroyListeners, busyDestroyed, pipeVars, updVars,
                   mgrVars, glVars>>

\* Lines 269-278: the load of a motion settles; then() and catch() run
MotionLoadSettles(t, ok, createOk) ==
    /\ t \in DOMAIN tasks
    /\ tasks[t].state = "pending"
    /\ tasks[t].mgr \in MotionManagers
    /\ LET m     == tasks[t].mgr
           group == tasks[t].group
           index == tasks[t].index
           taskGroup == motionTasksMap[m].has /\ motionTasksMap[m].groups[group].has
       IN  /\ motionTasksMap' =
                  IF ok /\ taskGroup
                  THEN [motionTasksMap EXCEPT ![m].groups[group].items[index] = 0]
                  ELSE motionTasksMap
           /\ tasks' = [tasks EXCEPT ![t].load = IF ok THEN "resolved" ELSE "rejected",
                                     ![t].state = Caught(Then(ok, createOk))]
           /\ lastOp' = Op("settled", None, None, 0, 0, FALSE)
    /\ UNCHANGED <<expressionTasksMap, destroyListeners, busyDestroyed, pipeVars, updVars,
                   mgrVars, glVars>>

\* Lines 315-324: the load of an expression settles; then() and catch() run
ExpressionLoadSettles(t, ok, createOk) ==
    /\ t \in DOMAIN tasks
    /\ tasks[t].state = "pending"
    /\ tasks[t].mgr \in ExpressionManagers
    /\ LET m     == tasks[t].mgr
           index == tasks[t].index
       IN  /\ expressionTasksMap' =
                  IF ok /\ expressionTasksMap[m].has
                  THEN [expressionTasksMap EXCEPT ![m].items[index] = 0]
                  ELSE expressionTasksMap
           /\ tasks' = [tasks EXCEPT ![t].load = IF ok THEN "resolved" ELSE "rejected",
                                     ![t].state = Caught(Then(ok, createOk))]
           /\ lastOp' = Op("settled", None, None, 0, 0, FALSE)
    /\ UNCHANGED <<motionTasksMap, destroyListeners, busyDestroyed, pipeVars, updVars,
                   mgrVars, glVars>>

\* The manager emits 'destroy': the once() listeners run and are removed.
Destroy(m) ==
    /\ LET after == IF destroyListeners[m] > 0
                    THEN releaseTasks(DestroyArgument(m))
                    ELSE [motion |-> motionTasksMap, expression |-> expressionTasksMap]
       IN  /\ motionTasksMap' = after.motion
           /\ expressionTasksMap' = after.expression
    /\ destroyListeners' = [destroyListeners EXCEPT ![m] = 0]
    /\ busyDestroyed' = [busyDestroyed EXCEPT ![m] =
           @ \/ \E t \in DOMAIN tasks : tasks[t].mgr = m /\ tasks[t].state = "pending"]
    /\ lastOp' = Op("destroy", m, None, 0, 0, FALSE)
    /\ UNCHANGED <<tasks, pipeVars, updVars, mgrVars, glVars>>

TasksNext ==
    \/ \E m \in MotionManagers, group \in MotionGroups \cup {"missing"},
          index \in MotionIndices :
           LoadMotion(m, group, index)
    \/ \E m \in ExpressionManagers, index \in ExpressionIndices \cup {1} :
           LoadExpression(m, index)
    \/ \E t \in 1..MaxLoads, ok, createOk \in BOOLEAN : MotionLoadSettles(t, ok, createOk)
    \/ \E t \in 1..MaxLoads, ok, createOk \in BOOLEAN : ExpressionLoadSettles(t, ok, createOk)
    \/ \E m \in Managers : Destroy(m)

\* Fresh managers: nothing tracked, no listener. The pipeline and the Cubism 2
\* model are at rest in this specification.
InitTasks ==
    /\ motionTasksMap = [m \in MotionManagers |-> NoMotionTasks]
    /\ expressionTasksMap = [m \in ExpressionManagers |-> NoExpressionTasks]
    /\ destroyListeners = [m \in Managers |-> 0]
    /\ tasks = <<>>
    /\ lastOp = Op("none", None, None, 0, 0, FALSE)
    /\ busyDestroyed = [m \in Managers |-> FALSE]
    /\ runtimes = <<>>
    /\ rtReady = [r \in RuntimeIds |-> FALSE]
    /\ srcArg = CHOOSE src \in Sources : src.kind = "other"
    /\ pc = "idle"
    /\ ctx = [source |-> srcArg, settings |-> NoSettings, internalModel |-> NoInternalModel]
    /\ live2dModel = [internalModel |-> None, textures |-> None]
    /\ textureLoadings = <<>>
    /\ promises = [textureLoaded |-> FALSE, modelLoaded |-> FALSE, ready |-> "pending"]
    /\ locals = [jsonAt |-> 0, readyAt |-> 0, readyRt |-> 0, createAt |-> 0,
                 createRt |-> 0, optRt |-> 0]
    /\ log = <<>>
    /\ result = "pending"
    /\ params = <<>>
    /\ savedParams = <<>>
    /\ parts = {}
    /\ focus = <<0, 0>>
    /\ frame = <<>>
    /\ drawn = <<>>
    /\ lastUpdate = None
    /\ frames = 0
    /\ motions = <<>>
    /\ queueManager = None
    /\ mgrCall = None
    /\ context = 0
    /\ drawParamWebGL = None
    /\ clipManager = None
    /\ arrays = <<>>
    /\ modelCall = None

SpecTasks == InitTasks /\ [][TasksNext]_vars

(***************************************************************************)
(* Claims about Live2DFactory.setupLive2DModel                             *)
(***************************************************************************)
EmitIndexes(ev) == {k \in DOMAIN log : log[k] = E("emit", ev, 0)}

Emitted(ev) == EmitIndexes(ev) # {}

Called(n) == \E k \in DOMAIN log : log[k].k = "call" /\ log[k].n = n

\* ev1 is emitted before ev2 whenever both are emitted
Precedes(ev1, ev2) ==
    \A a \in EmitIndexes(ev1), b \in EmitIndexes(ev2) : a < b

\* C1: 'load' is emitted only after 'ready' was emitted, strictly earlier in the
\* same run, and each of the two events is emitted at most once.
C1_LoadAfterReady ==
    /\ Cardinality(EmitIndexes("load")) <= 1
    /\ Cardinality(EmitIndexes("ready")) <= 1
    /\ \A l \in EmitIndexes("load") : \E r \in EmitIndexes("ready") : r < l

C1_Witness == Emitted("load") /\ result = "resolved"

\* C2: 'ready' is emitted only after 'modelLoaded' and 'textureLoaded', and never
\* inside the dispatch of either: when 'ready' is emitted or one of its handlers
\* runs, the dispatch of both events has ended, all their handlers having run.
C2_ReadyAfterDispatch ==
    \A r \in DOMAIN log :
        (log[r].n = "ready" /\ log[r].k \in {"emit", "handler"}) =>
            \A ev \in {"modelLoaded", "textureLoaded"} :
                /\ \E e \in 1..(r - 1) : log[e] = E("end", ev, 0)
                /\ \A h \in DOMAIN log :
                       (log[h].n = ev /\ log[h].k = "handler") => h < r

C2_Witness ==
    /\ \E k \in DOMAIN log : log[k] = E("handler", "ready", UserHandlers)
    /\ \E k \in DOMAIN log : log[k] = E("handler", "textureLoaded", UserHandlers)
    /\ \E k \in DOMAIN log : log[k] = E("handler", "modelLoaded", UserHandlers)

\* C7 as stated: in a finished run 'settingsJSONLoaded' is emitted if and only if
\* the source is a URL string, and 'settingsLoaded' if and only if the source is
\* not a ModelSettings instance.
C7_AsStated ==
    pc \in {"done", "failed"} =>
        /\ Emitted("settingsJSONLoaded") <=> srcArg.kind = "url"
        /\ Emitted("settingsLoaded") <=> srcArg.kind # "settings"

\* C7, amended: 'settingsJSONLoaded' is emitted only for a URL source, and then
\* exactly when the JSON was fetched (its url field being the source);
\* 'settingsLoaded' is emitted only for a source that is no ModelSettings
\* instance, and then exactly when a registered runtime made settings from it;
\* each at most once, 'settingsJSONLoaded' first, both before 'modelLoaded'.
C7_SettingsEvents ==
    /\ Emitted("settingsJSONLoaded") => srcArg.kind = "url"
    /\ (srcArg.kind = "url" /\ pc \notin {"idle", "awaitJSON"})
           => (Emitted("settingsJSONLoaded") <=> result # "Error: load json")
    /\ Emitted("settingsJSONLoaded")
           => (ctx.source.kind = "json" /\ ctx.source.url = srcArg.url)
    /\ Emitted("settingsLoaded") => srcArg.kind # "settings"
    /\ srcArg.kind # "settings"
           => (Emitted("settingsLoaded") <=> ctx.settings # NoSettings)
    /\ Cardinality(EmitIndexes("settingsJSONLoaded")) <= 1
    /\ Cardinality(EmitIndexes("settingsLoaded")) <= 1
    /\ Precedes("settingsJSONLoaded", "settingsLoaded")
    /\ Precedes("settingsJSONLoaded", "modelLoaded")
    /\ Precedes("settingsLoaded", "modelLoaded")

C7_Witness ==
    /\ Emitted("settingsJSONLoaded") /\ Emitted("settingsLoaded")
    /\ Emitted("modelLoaded")

\* The createModelSettings calls of a run, in order
Asked(l) ==
    LET IsAsk(e) == e.k = "call" /\ e.n = "createModelSettings"
        calls == SelectSeq(l, IsAsk)
    IN  [k \in 1..Len(calls) |-> calls[k].i]

\* C8: Live2DFactory.runtimes is always ordered by non-increasing version, and
\* when jsonToSettings takes settings from a runtime, that runtime is the last
\* one it asked, none asked before it returned settings, and no registered
\* runtime that returns settings for the source has a higher version.
C8_RuntimePriority ==
    /\ [](\A k \in 1..(Len(runtimes) - 1) :
              Version(runtimes[k]) >= Version(runtimes[k + 1]))
    /\ [][(ctx.settings = NoSettings /\ ctx'.settings.by # 0) =>
              LET by == ctx'.settings.by
                  asked == Asked(log')
              IN  /\ asked # <<>> /\ asked[Len(asked)] = by
                  /\ \A k \in 1..(Len(asked) - 1) :
                         /\ CreateModelSettings(asked[k], ctx'.source) = NoSettings
                         /\ Version(asked[k]) >= Version(by)
                  /\ \A k \in 1..Len(runtimes) :
                         CreateModelSettings(runtimes[k], ctx'.source) # NoSettings
                             => Version(runtimes[k]) <= Version(by)]_vars

C8_Witness ==
    /\ Len(runtimes) = 2
    /\ Version(runtimes[1]) > Version(runtimes[2])
    /\ ctx.settings.by = runtimes[1]
    /\ Fmt(runtimes[2]) = ctx.settings.fmt
    /\ Asked(log) = <<runtimes[1]>>

UnknownFormat == "TypeError: Unknown settings format."

\* C9: when jsonToSettings gets a source that is no ModelSettings instance and
\* for which no registered runtime returns settings, the run rejects with the
\* TypeError 'Unknown settings format.'; in a run rejected so no core model or
\* texture load was started and none of 'settingsLoaded', 'modelLoaded',
\* 'textureLoaded', 'ready' and 'load' is ever emitted.
C9_UnknownSettingsFormat ==
    /\ [][(/\ pc \in {"idle", "awaitJSON"}
           /\ pc' \notin {"idle", "awaitJSON"}
           /\ result' # "Error: load json"
           /\ ctx'.source.kind # "settings"
           /\ \A k \in 1..Len(runtimes) :
                  CreateModelSettings(runtimes[k], ctx'.source) = NoSettings)
              => (result' = UnknownFormat /\ pc' = "failed")]_vars
    /\ [](result = UnknownFormat =>
              /\ pc = "failed"
              /\ ~Called("load:moc") /\ ~Called("createTexture")
              /\ textureLoadings = <<>>
              /\ ctx.settings = NoSettings
              /\ \A ev \in {"settingsLoaded", "modelLoaded", "textureLoaded",
                            "ready", "load"} : ~Emitted(ev))

C9_Witness ==
    /\ result = UnknownFormat
    /\ srcArg.kind = "url"
    /\ runtimes # <<>>

\* The places in the log of the calls named n
CallIndexes(n) == {k \in DOMAIN log : log[k].k = "call" /\ log[k].n = n}

\* Every texture was loaded when the load of the core model settled
TexturesLoadedFirst == \E k \in DOMAIN log : log[k] = E("settled", "textures", 0)

\* C11: 'modelLoaded' is emitted before 'textureLoaded' and
\* live2DModel.internalModel is assigned before live2DModel.textures, also when
\* every texture was loaded before the core model was made; every texture of
\* the settings is requested before the core model load is started.
C11_ModelBeforeTextures ==
    /\ Precedes("modelLoaded", "textureLoaded")
    /\ Emitted("textureLoaded") => Emitted("modelLoaded")
    /\ Emitted("modelLoaded") <=> live2dModel.internalModel # None
    /\ Emitted("textureLoaded") <=> live2dModel.textures # None
    /\ \A a \in CallIndexes("createTexture"), b \in CallIndexes("load:moc") : a < b
    /\ Called("load:moc")
           => Cardinality(CallIndexes("createTexture")) = ctx.settings.nTex

C11_Witness ==
    /\ Emitted("textureLoaded")
    /\ TexturesLoadedFirst
    /\ Len(textureLoadings) = MaxTextures

\* C12: the pose load is started only after 'textureLoaded' was emitted, the
\* physics load only after the pose load has settled, 'poseLoaded' precedes
\* 'physicsLoaded', and when 'load' is emitted every pose and physics load the
\* settings define was started and has settled.
C12_OptionalsLast ==
    /\ \A e \in EmitIndexes("textureLoaded") \cup EmitIndexes("modelLoaded"),
          a \in CallIndexes("load:pose") \cup CallIndexes("load:physics") : e < a
    /\ (Called("load:pose") \/ Called("load:physics")) => Emitted("textureLoaded")
    /\ \A a \in CallIndexes("load:pose"), b \in CallIndexes("load:physics") : a < b
    /\ pc = "awaitPose" => (Called("load:pose") /\ ~Called("load:physics"))
    /\ pc = "awaitPhysics" => Called("load:physics")
    /\ Emitted("poseLoaded") => pc # "awaitPose"
    /\ Emitted("physicsLoaded") => pc \notin {"awaitPose", "awaitPhysics"}
    /\ Precedes("poseLoaded", "physicsLoaded")
    /\ Precedes("poseLoaded", "load") /\ Precedes("physicsLoaded", "load")
    /\ Emitted("load") =>
           /\ pc \notin {"awaitPose", "awaitPhysics"}
           /\ ctx.settings.pose => Called("load:pose")
           /\ ctx.settings.physics => Called("load:physics")
           /\ \A a \in CallIndexes("load:pose") \cup CallIndexes("load:physics"),
                 l \in EmitIndexes("load") : a < l

C12_Witness ==
    /\ Emitted("load")
    /\ Emitted("poseLoaded") /\ Emitted("physicsLoaded")

\* The load of the pose (physics) file failed, or createPose (createPhysics) threw
OptionalFailed(n, create) ==
    \/ \E k \in DOMAIN log : log[k] = E("failed", n, 0)
    \/ \E k \in DOMAIN log : log[k].k = "threw" /\ log[k].n = create

\* C13: when the pose load fails or createPose throws, internalModel.pose stays
\* unset, 'poseLoaded' is not emitted, the physics load the settings define is
\* started, and the run is not rejected; likewise for the physics; a run whose
\* chain has resolved ('ready' being emitted or queued, the optional loads
\* settled) eventually emits 'load' and resolves.
C13_OptionalFailureNotFatal ==
    /\ [](OptionalFailed("pose", "createPose") =>
              /\ ctx.internalModel.pose = None
              /\ ~Emitted("poseLoaded")
              /\ ctx.settings.physics => Called("load:physics")
              /\ pc \in {"awaitPhysics", "awaitReadyEvent", "done"}
              /\ result \in {"pending", "resolved"})
    /\ [](OptionalFailed("physics", "createPhysics") =>
              /\ ctx.internalModel.physics = None
              /\ ~Emitted("physicsLoaded")
              /\ pc \in {"awaitReadyEvent", "done"}
              /\ result \in {"pending", "resolved"})
    /\ [](pc = "done" <=> Emitted("load"))
    /\ [](pc = "done" <=> result = "resolved")
    /\ [](pc = "awaitReadyEvent" => promises.ready \in {"queued", "emitted"})
    /\ [](pc = "awaitReadyEvent" => <>(Emitted("load") /\ result = "resolved"))

C13_Witness ==
    /\ OptionalFailed("pose", "createPose")
    /\ OptionalFailed("physics", "createPhysics")
    /\ Called("createPhysics")
    /\ Emitted("load")

\* C14 as stated: createCoreModel and createInternalModel are called only on a
\* runtime whose ready() promise has resolved.
C14_AsStated ==
    \A k \in CallIndexes("createCoreModel") \cup CallIndexes("createInternalModel") :
        rtReady[log[k].i]

TextureFailed == \E t \in DOMAIN textureLoadings : textureLoadings[t] = "failed"

\* C15: once the internal model is made and a texture has failed, the run is
\* rejected at the await of Promise.all, and neither before nor after that
\* 'textureLoaded', 'ready' or 'load' is emitted, a pose or physics load is
\* started or live2DModel.textures is assigned, while 'modelLoaded' has been
\* emitted and live2DModel.internalModel assigned.
C15_TextureFailure ==
    /\ [][(pc = "awaitTextures" /\ TextureFailed /\ pc' # pc)
              => (pc' = "failed" /\ result' = "Error: texture")]_vars
    /\ []((TextureFailed /\ ctx.internalModel # NoInternalModel) =>
              /\ pc \in {"awaitTextures", "failed"}
              /\ pc = "failed" <=> result = "Error: texture"
              /\ result \in {"pending", "Error: texture"}
              /\ \A ev \in {"textureLoaded", "ready", "load"} : ~Emitted(ev)
              /\ ~Called("load:pose") /\ ~Called("load:physics")
              /\ Emitted("modelLoaded")
              /\ live2dModel.internalModel # None
              /\ live2dModel.textures = None)
    /\ [](result = "Error: texture" => TextureFailed /\ ctx.internalModel # NoInternalModel)

C15_Witness ==
    /\ result = "Error: texture"
    /\ ctx.settings.pose /\ ctx.settings.physics
    /\ Emitted("modelLoaded")
    /\ ~TexturesLoadedFirst

UnknownModelSettings == "TypeError: Unknown model settings."

\* The rejections of the createInternalModel middleware
NoInternalModelErrors ==
    {UnknownModelSettings, "Error: load moc", "Error: createCoreModel",
     "Error: createInternalModel"}

\* C16: when the chain reaches createInternalModel with settings no registered
\* runtime accepts, the run is rejected with 'Unknown model settings.' and no
\* core-model load is started; when the core-model load, createCoreModel or
\* createInternalModel fails, the run is rejected; in a run rejected so
\* context.internalModel and live2DModel.internalModel are unset and none of
\* 'modelLoaded', 'textureLoaded', 'ready' and 'load' is emitted, whatever the
\* textures do.
C16_NoInternalModel ==
    /\ [][(/\ pc \in {"idle", "awaitJSON", "awaitReady"}
           /\ pc' \notin {"idle", "awaitJSON", "awaitReady"}
           /\ ctx'.settings # NoSettings
           /\ FindRuntime(ctx'.settings) = 0)
              => (pc' = "failed" /\ result' = UnknownModelSettings)]_vars
    /\ [][(pc = "awaitMoc" /\ pc' # pc /\ ~Called("createInternalModel")')
              => (/\ pc' = "failed"
                  /\ result' \in {"Error: load moc", "Error: createCoreModel"}
                  /\ result' = "Error: load moc" <=> ~Called("createCoreModel")')]_vars
    /\ [][(pc = "awaitMoc" /\ pc' = "failed" /\ Called("createInternalModel")')
              => result' = "Error: createInternalModel"]_vars
    /\ [](result = UnknownModelSettings => ~Called("load:moc"))
    /\ [](result \in NoInternalModelErrors =>
              /\ pc = "failed"
              /\ ctx.internalModel = NoInternalModel
              /\ live2dModel.internalModel = None
              /\ live2dModel.textures = None
              /\ \A ev \in {"modelLoaded", "textureLoaded", "ready", "load"} : ~Emitted(ev))

C16_Witness ==
    /\ result = "Error: createInternalModel"
    /\ Len(textureLoadings) = MaxTextures
    /\ \A t \in DOMAIN textureLoadings : textureLoadings[t] = "loaded"
    /\ ~TexturesLoadedFirst

(***************************************************************************)
(* Claims about loadMotion, loadExpression and releaseTasks                *)
(***************************************************************************)
\* The pending load tasks of a key
PendingFor(m, group, index) ==
    {t \in DOMAIN tasks : /\ tasks[t].mgr = m
                          /\ tasks[t].group = group
                          /\ tasks[t].index = index
                          /\ tasks[t].state = "pending"}

HasEntry(m) ==
    IF m \in MotionManagers THEN motionTasksMap[m].has ELSE expressionTasksMap[m].has

\* C3 as stated: whenever a load task of the key is pending, a loadMotion call
\* for the key returns that task's promise and starts no load.
C3_AsStated ==
    [][\A m \in MotionManagers, group \in MotionGroups, index \in MotionIndices :
           (/\ lastOp'.op = "loadMotion" /\ lastOp'.mgr = m
            /\ lastOp'.group = group /\ lastOp'.index = index
            /\ PendingFor(m, group, index) # {})
               => /\ PendingFor(m, group, index) = {lastOp'.ret}
                  /\ tasks' = tasks]_vars

\* C3, amended: as long as the manager has emitted no 'destroy' while one of
\* its loads was pending, a loadMotion call for a key with a pending load task
\* returns that task's promise and starts no load, so that at most one load of
\* the key is pending.
C3_MotionDeduplicated ==
    /\ [][\A m \in MotionManagers, group \in MotionGroups, index \in MotionIndices :
              (/\ lastOp'.op = "loadMotion" /\ lastOp'.mgr = m
               /\ lastOp'.group = group /\ lastOp'.index = index
               /\ PendingFor(m, group, index) # {}
               /\ ~busyDestroyed[m])
                  => /\ PendingFor(m, group, index) = {lastOp'.ret}
                     /\ ~lastOp'.fresh
                     /\ tasks' = tasks]_vars
    /\ [](\A m \in MotionManagers, group \in MotionGroups, index \in MotionIndices :
              ~busyDestroyed[m] => Cardinality(PendingFor(m, group, index)) <= 1)

C3_Witness ==
    /\ lastOp.op = "loadMotion" /\ ~lastOp.fresh /\ lastOp.ret > 0
    /\ tasks[lastOp.ret].state = "pending"
    /\ ~busyDestroyed[lastOp.mgr]

\* C4 as stated: whenever a load task of the index is pending, a loadExpression
\* call for the index returns that task's promise and starts no load.
C4_AsStated ==
    [][\A m \in ExpressionManagers, index \in ExpressionIndices :
           (/\ lastOp'.op = "loadExpression" /\ lastOp'.mgr = m
            /\ lastOp'.index = index
            /\ PendingFor(m, None, index) # {})
               => /\ PendingFor(m, None, index) = {lastOp'.ret}
                  /\ tasks' = tasks]_vars

\* C4, amended: as long as the manager has emitted no 'destroy' while one of
\* its loads was pending, a loadExpression call for an index with a pending
\* load task returns that task's promise and starts no load, so that at most
\* one load of the index is pending.
C4_ExpressionDeduplicated ==
    /\ [][\A m \in ExpressionManagers, index \in ExpressionIndices :
              (/\ lastOp'.op = "loadExpression" /\ lastOp'.mgr = m
               /\ lastOp'.index = index
               /\ PendingFor(m, None, index) # {}
               /\ ~busyDestroyed[m])
                  => /\ PendingFor(m, None, index) = {lastOp'.ret}
                     /\ ~lastOp'.fresh
                     /\ tasks' = tasks]_vars
    /\ [](\A m \in ExpressionManagers, index \in ExpressionIndices :
              ~busyDestroyed[m] => Cardinality(PendingFor(m, None, index)) <= 1)

C4_Witness ==
    /\ lastOp.op = "loadExpression" /\ ~lastOp.fresh /\ lastOp.ret > 0
    /\ tasks[lastOp.ret].state = "pending"
    /\ ~busyDestroyed[lastOp.mgr]

\* C5: releaseTasks is registered on 'destroy' at most once per manager; it is
\* registered after a load call with an existing definition and as long as the
\* manager has an entry in its task map; right after the manager emitted
\* 'destroy' it has no entry in its task map and the listener is gone.
C5_ReleasedOnDestroy ==
    /\ \A m \in Managers : destroyListeners[m] <= 1
    /\ \A m \in Managers : HasEntry(m) => destroyListeners[m] = 1
    /\ (lastOp.op = "loadMotion" /\ MotionDefinition(lastOp.group, lastOp.index))
           => (destroyListeners[lastOp.mgr] = 1 /\ HasEntry(lastOp.mgr))
    /\ (lastOp.op = "loadExpression" /\ ExpressionDefinition(lastOp.index))
           => (destroyListeners[lastOp.mgr] = 1 /\ HasEntry(lastOp.mgr))
    /\ lastOp.op = "destroy"
           => (~HasEntry(lastOp.mgr) /\ destroyListeners[lastOp.mgr] = 0)

C5_Witness ==
    /\ lastOp.op = "destroy"
    /\ busyDestroyed[lastOp.mgr]
    /\ \E m \in Managers : m # lastOp.mgr /\ HasEntry(m)

\* C6: no promise returned by loadMotion or loadExpression is ever rejected: a
\* task whose load failed or whose createMotion/createExpression threw is
\* resolved with undefined; a call for a missing definition returns a promise
\* resolved with undefined and changes neither the task maps nor the listeners
\* and starts no load.
C6_NeverRejects ==
    /\ [](\A t \in DOMAIN tasks :
              /\ tasks[t].state \in {"pending", "value", "undefined"}
              /\ tasks[t].state = "pending" <=> tasks[t].load = "pending"
              /\ tasks[t].load = "rejected" => tasks[t].state = "undefined")
    /\ [][(\/ lastOp'.op = "loadMotion"
              /\ ~MotionDefinition(lastOp'.group, lastOp'.index)
           \/ lastOp'.op = "loadExpression"
              /\ ~ExpressionDefinition(lastOp'.index))
              => /\ lastOp'.ret = 0 /\ ~lastOp'.fresh
                 /\ UNCHANGED <<motionTasksMap, expressionTasksMap,
                                destroyListeners, tasks>>]_vars

C6_Witness ==
    /\ lastOp.op = "loadMotion" /\ ~MotionDefinition(lastOp.group, lastOp.index)
    /\ \E t \in DOMAIN tasks : tasks[t].load = "rejected" /\ tasks[t].state = "undefined"
    /\ \E t \in DOMAIN tasks : tasks[t].load = "resolved" /\ tasks[t].state = "undefined"

(***************************************************************************)
(* Cubism2InternalModel.update (cubism2/Cubism2InternalModel.ts)           *)
(*                                                                         *)
(* Parameter values are integers in units of 1/Unit; sines are in          *)
(* thousandths, so that  a * sin * 0.5  is the integer  a * Sin.           *)
(***************************************************************************)
MaxFrames == 3   \* update() calls in one behaviour

Unit == 2000

\* Lines 51-57, and a parameter each for the eye blink and the physics
ParamIds == {"PARAM_EYE_BALL_X", "PARAM_EYE_BALL_Y", "PARAM_ANGLE_X", "PARAM_ANGLE_Y",
             "PARAM_ANGLE_Z", "PARAM_BODY_ANGLE_X", "PARAM_BREATH",
             "PARAM_EYE_L_OPEN", "PARAM_HAIR_FRONT"}

OptionalParts == {"eyeBlink", "physics", "pose"}

\* focusController.x and focusController.y, each within [-1, 1]
FocusPositions == {<<0, 0>>, <<1, 0>>, <<-1, 1>>, <<1, 1>>}

\* now, in milliseconds
Times == {1000, 2500}

\* Values a motion, the eye blink or the physics writes into its parameter
Written == {0, Unit}

\* Math.sin((now / 1000) * 2 * Math.PI / period) in thousandths, lines 202-209
Sin(now, period) ==
    CASE period = "6.5345"  -> (CASE now = 1000 -> 820 [] now = 2500 -> 673  [] OTHER -> 0)
      [] period = "3.5345"  -> (CASE now = 1000 -> 979 [] now = 2500 -> -964 [] OTHER -> 0)
      [] period = "5.5345"  -> (CASE now = 1000 -> 907 [] now = 2500 -> 299  [] OTHER -> 0)
      [] period = "15.5345" -> (CASE now = 1000 -> 394 [] now = 2500 -> 847  [] OTHER -> 0)
      [] period = "3.2345"  -> (CASE now = 1000 -> 932 [] now = 2500 -> -990 [] OTHER -> 0)

\* The inputs of one update() call: the time, what super.update made of the
\* focus, and what the objects outside this class do with the parameters.
Inputs ==
    {in \in [now : Times, focus : FocusPositions, motionUpdated : BOOLEAN,
             motion : Written, blink : Written, hair : Written] :
        ~in.motionUpdated => in.motion = 0}

\* The coreModel and the steps done so far, as an update() call works on them
Running(ps, saved) ==
    [coreModel |-> [params |-> ps, saved |-> saved, drawn |-> ps], frame |-> <<>>]

Did(st, step) == [st EXCEPT !.frame = Append(@, step)]

\* this.emit(event)
emit(st, event) == Did(st, event)

\* coreModel.setParamFloat(id, value)
setParamFloat(st, id, value) == [st EXCEPT !.coreModel.params[id] = value]

\* coreModel.addToParamFloat(id, value)
addToParamFloat(st, id, value) == [st EXCEPT !.coreModel.params[id] = @ + value]

\* coreModel.saveParam() and coreModel.loadParam()
saveParam(st) ==
    Did([st EXCEPT !.coreModel = [params |-> @.params, saved |-> @.params,
                                  drawn |-> @.drawn]],
        "saveParam")

loadParam(st) ==
    Did([st EXCEPT !.coreModel = [params |-> @.saved, saved |-> @.saved,
                                  drawn |-> @.drawn]],
        "loadParam")

\* Line 170: a playing motion writes its parameter and the result is true
motionManagerUpdate(st, in) ==
    Did(IF in.motionUpdated THEN setParamFloat(st, "PARAM_ANGLE_X", in.motion) ELSE st,
        "motionManager.update")

\* Mutant of eyeBlinkUpdate: the test of line 176 left out.
eyeBlinkUpdateAlways(st, in, have) ==
    IF "eyeBlink" \in have
    THEN Did(setParamFloat(st, "PARAM_EYE_L_OPEN", in.blink), "eyeBlink.update")
    ELSE st

\* Lines 176-178
eyeBlinkUpdate(st, in, have) ==
    IF ~in.motionUpdated /\ "eyeBlink" \in have
    THEN Did(setParamFloat(st, "PARAM_EYE_L_OPEN", in.blink), "eyeBlink.update")
    ELSE st

\* Mutant of updateFocus: line 197 without the factor focusController.y.
updateFocusFlat(st, at) ==
    LET x == at[1]
        y == at[2]
        s1 == addToParamFloat(st, "PARAM_EYE_BALL_X", x * Unit)
        s2 == addToParamFloat(s1, "PARAM_EYE_BALL_Y", y * Unit)
        s3 == addToParamFloat(s2, "PARAM_ANGLE_X", x * 30 * Unit)
        s4 == addToParamFloat(s3, "PARAM_ANGLE_Y", y * 30 * Unit)
        s5 == addToParamFloat(s4, "PARAM_ANGLE_Z", x * (-30) * Unit)
        s6 == addToParamFloat(s5, "PARAM_BODY_ANGLE_X", x * 10 * Unit)
    IN  Did(s6, "updateFocus")

\* Lines 192-199
updateFocus(st, at) ==
    LET x == at[1]
        y == at[2]
        s1 == addToParamFloat(st, "PARAM_EYE_BALL_X", x * Unit)
        s2 == addToParamFloat(s1, "PARAM_EYE_BALL_Y", y * Unit)
        s3 == addToParamFloat(s2, "PARAM_ANGLE_X", x * 30 * Unit)
        s4 == addToParamFloat(s3, "PARAM_ANGLE_Y", y * 30 * Unit)
        s5 == addToParamFloat(s4, "PARAM_ANGLE_Z", x * y * (-30) * Unit)
        s6 == addToParamFloat(s5, "PARAM_BODY_ANGLE_X", x * 10 * Unit)
    IN  Did(s6, "updateFocus")

\* Lines 201-210
updateNaturalMovements(st, now) ==
    LET s1 == addToParamFloat(st, "PARAM_ANGLE_X", 15 * Sin(now, "6.5345"))
        s2 == addToParamFloat(s1, "PARAM_ANGLE_Y", 8 * Sin(now, "3.5345"))
        s3 == addToParamFloat(s2, "PARAM_ANGLE_Z", 10 * Sin(now, "5.5345"))
        s4 == addToParamFloat(s3, "PARAM_BODY_ANGLE_X", 4 * Sin(now, "15.5345"))
        s5 == setParamFloat(s4, "PARAM_BREATH", (Unit \div 2) + Sin(now, "3.2345"))
    IN  Did(s5, "updateNaturalMovements")

\* Line 183
physicsUpdate(st, in, have) ==
    IF "physics" \in have
    THEN Did(setParamFloat(st, "PARAM_HAIR_FRONT", in.hair), "physics.update")
    ELSE st

\* Line 184: the pose fades parts, it writes no parameter
poseUpdate(st, have) ==
    IF "pose" \in have THEN Did(st, "pose.update") ELSE st

\* Line 188: coreModel.update() takes the parameter values as they are
coreModelUpdate(st) ==
    Did([st EXCEPT !.coreModel = [params |-> @.params, saved |-> @.saved,
                                  drawn |-> @.params]],
        "coreModel.update")

\* Mutant of ModelUpdate: loadParam() left out, the call noted all the same.
ModelUpdateKeepsParams(st) ==
    Did(coreModelUpdate(emit(st, "beforeModelUpdate")), "loadParam")

\* Mutant of ModelUpdate: 'beforeModelUpdate' emitted after coreModel.update()
ModelUpdateEmitsLate(st) ==
    loadParam(emit(coreModelUpdate(st), "beforeModelUpdate"))

\* Lines 186-189
ModelUpdate(st) ==
    loadParam(coreModelUpdate(emit(st, "beforeModelUpdate")))

\* Lines 168-174
MotionUpdate(st, in) ==
    saveParam(emit(motionManagerUpdate(emit(st, "beforeMotionUpdate"), in),
                   "afterMotionUpdate"))

\* Lines 163-190, for the optional objects present and the focus position
update(st, in, have, at) ==
    LET s1 == MotionUpdate(st, in)
        s2 == eyeBlinkUpdate(s1, in, have)
        s3 == updateFocus(s2, at)
        s4 == updateNaturalMovements(s3, in.now)
        s5 == physicsUpdate(s4, in, have)
        s6 == poseUpdate(s5, have)
    IN  ModelUpdate(s6)

\* One call of update(dt, now); super.update (line 164) moves the focus
Update(in) ==
    /\ frames < MaxFrames
    /\ \E st \in {update(Running(params, savedParams), in, parts, in.focus)} :
           /\ params' = st.coreModel.params
           /\ savedParams' = st.coreModel.saved
           /\ drawn' = st.coreModel.drawn
           /\ frame' = st.frame
    /\ focus' = in.focus
    /\ lastUpdate' = [now |-> in.now, motionUpdated |-> in.motionUpdated]
    /\ frames' = frames + 1
    /\ UNCHANGED <<parts, pipeVars, taskVars, mgrVars, glVars>>

\* setupOptionals assigns internalModel.pose (Live2DFactory.ts line 117) and
\* internalModel.physics (line 130) once they are created
PoseCreated ==
    /\ "pose" \notin parts
    /\ parts' = parts \cup {"pose"}
    /\ UNCHANGED <<params, savedParams, focus, frame, drawn, lastUpdate, frames, pipeVars,
                   taskVars, mgrVars, glVars>>

PhysicsCreated ==
    /\ "physics" \notin parts
    /\ parts' = parts \cup {"physics"}
    /\ UNCHANGED <<params, savedParams, focus, frame, drawn, lastUpdate, frames, pipeVars,
                   taskVars, mgrVars, glVars>>

\* eyeBlink is an optional public field (line 26): the application unsets it
EyeBlinkUnset ==
    /\ "eyeBlink" \in parts
    /\ parts' = parts \ {"eyeBlink"}
    /\ UNCHANGED <<params, savedParams, focus, frame, drawn, lastUpdate, frames, pipeVars,
                   taskVars, mgrVars, glVars>>

UpdateNext ==
    \/ \E in \in Inputs : Update(in)
    \/ PoseCreated
    \/ PhysicsCreated
    \/ EyeBlinkUnset

\* After the constructor (lines 43-60) and init (lines 62-73): the parameters
\* hold settings.initParams and are saved; the eye blink exists
InitUpdate ==
    /\ runtimes = <<>>
    /\ rtReady = [r \in RuntimeIds |-> FALSE]
    /\ srcArg = CHOOSE src \in Sources : src.kind = "other"
    /\ pc = "idle"
    /\ ctx = [source |-> srcArg, settings |-> NoSettings, internalModel |-> NoInternalModel]
    /\ live2dModel = [internalModel |-> None, textures |-> None]
    /\ textureLoadings = <<>>
    /\ promises = [textureLoaded |-> FALSE, modelLoaded |-> FALSE, ready |-> "pending"]
    /\ locals = [jsonAt |-> 0, readyAt |-> 0, readyRt |-> 0, createAt |-> 0,
                 createRt |-> 0, optRt |-> 0]
    /\ log = <<>>
    /\ result = "pending"
    /\ motionTasksMap = <<>>
    /\ expressionTasksMap = <<>>
    /\ destroyListeners = <<>>
    /\ tasks = <<>>
    /\ lastOp = None
    /\ busyDestroyed = <<>>
    /\ \E initial \in Written :
           params = [id \in ParamIds |-> IF id = "PARAM_ANGLE_X" THEN initial ELSE 0]
    /\ savedParams = params
    /\ parts = {"eyeBlink"}
    /\ focus = <<0, 0>>
    /\ frame = <<>>
    /\ drawn = params
    /\ lastUpdate = [now |-> 0, motionUpdated |-> FALSE]
    /\ frames = 0
    /\ motions = <<>>
    /\ queueManager = None
    /\ mgrCall = None
    /\ context = 0
    /\ drawParamWebGL = None
    /\ clipManager = None
    /\ arrays = <<>>
    /\ modelCall = None

SpecUpdate == InitUpdate /\ [][UpdateNext]_vars

(***************************************************************************)
(* Claims about Cubism2InternalModel.update                                *)
(***************************************************************************)
\* The steps of update() in the order of lines 168-189
FixedOrder ==
    <<"beforeMotionUpdate", "motionManager.update", "afterMotionUpdate", "saveParam",
      "eyeBlink.update", "updateFocus", "updateNaturalMovements", "physics.update",
      "pose.update", "beforeModelUpdate", "coreModel.update", "loadParam">>

Conditional == {"eyeBlink.update", "physics.update", "pose.update"}

InFrame(step) == \E k \in DOMAIN frame : frame[k] = step

StepCount(step) == Cardinality({k \in DOMAIN frame : frame[k] = step})

\* C10: what an update() call did is the fixed sequence of twelve steps with
\* nothing but conditional steps left out: the physics and the pose step are
\* there exactly if the object is present, the eye blink only if it is, and
\* each of the three events is emitted exactly once.
C10_FixedOrder ==
    /\ [](frames > 0 =>
            /\ frame = SelectSeq(FixedOrder, InFrame)
            /\ \A k \in DOMAIN FixedOrder :
                   FixedOrder[k] \notin Conditional => InFrame(FixedOrder[k])
            /\ \A event \in {"beforeMotionUpdate", "afterMotionUpdate", "beforeModelUpdate"} :
                   StepCount(event) = 1)
    /\ [][frames' # frames =>
            /\ InFrame("physics.update")' <=> "physics" \in parts
            /\ InFrame("pose.update")' <=> "pose" \in parts
            /\ InFrame("eyeBlink.update")' => "eyeBlink" \in parts]_vars

C10_Witness ==
    /\ frames > 1
    /\ Len(frame) = Len(FixedOrder)

(***************************************************************************)
(* Claims about the entries of the task maps                               *)
(***************************************************************************)
\* The keys a load task can have: manager, group (none for expressions), index
TaskKeys ==
    {key \in MotionManagers \X MotionGroups \X MotionIndices :
        MotionDefinition(key[2], key[3])}
    \cup (ExpressionManagers \X {None} \X ExpressionIndices)

\* The promise the task map holds for a key, 0 for none
Entry(key) ==
    IF key[1] \in MotionManagers
    THEN motionTasksMap[key[1]].groups[key[2]].items[key[3]]
    ELSE expressionTasksMap[key[1]].items[key[3]]

KeyOf(t) == <<tasks[t].mgr, tasks[t].group, tasks[t].index>>

\* This step is a loadMotion or loadExpression call for the key
IsLoadCall(key) ==
    /\ lastOp'.op \in {"loadMotion", "loadExpression"}
    /\ <<lastOp'.mgr, lastOp'.group, lastOp'.index>> = key

\* In this step the load of task t settles
LoadResolves(t) == tasks[t].load = "pending" /\ tasks'[t].load = "resolved"

LoadRejects(t) == tasks[t].load = "pending" /\ tasks'[t].load = "rejected"

\* C17 as stated: an entry leaves the map only in the step in which its own load
\* resolves, and once a load of a key was rejected every call for the key
\* returns that task's promise and starts no load.
C17_AsStated ==
    /\ [][\A key \in TaskKeys :
              (Entry(key) # 0 /\ Entry(key)' # Entry(key))
                  => LoadResolves(Entry(key))]_vars
    /\ [][\A key \in TaskKeys : \A t \in DOMAIN tasks :
              (IsLoadCall(key) /\ KeyOf(t) = key /\ tasks[t].load = "rejected")
                  => (lastOp'.ret = t /\ tasks' = tasks)]_vars

\* C17, amended: an entry leaves the map only when the load of its key resolves
\* (its own load, if the manager emitted no 'destroy' while a load was pending)
\* or when the manager emits 'destroy'.  When the load of a task resolves, the
\* slot of its key is empty afterwards, and a call for a key with an empty slot
\* starts a new load; when it rejects, the maps stay as they are and the promise
\* resolves with undefined, and a call for a key whose slot holds such a promise
\* returns it and starts no load.  Holds for motions and for expressions.
C17_EntryRemoval ==
    /\ [][\A key \in TaskKeys :
              (Entry(key) # 0 /\ Entry(key)' # Entry(key)) =>
                  \/ lastOp'.op = "destroy" /\ lastOp'.mgr = key[1]
                  \/ /\ Entry(key)' = 0
                     /\ \E t \in DOMAIN tasks : KeyOf(t) = key /\ LoadResolves(t)
                     /\ ~busyDestroyed[key[1]] => LoadResolves(Entry(key))]_vars
    /\ [][\A t \in DOMAIN tasks :
              LoadResolves(t) => Entry(KeyOf(t))' = 0]_vars
    /\ [][\A key \in TaskKeys :
              (IsLoadCall(key) /\ Entry(key) = 0)
                  => (lastOp'.fresh /\ Entry(key)' = lastOp'.ret
                      /\ Len(tasks') = Len(tasks) + 1)]_vars
    /\ [][\A t \in DOMAIN tasks :
              LoadRejects(t) => /\ UNCHANGED <<motionTasksMap, expressionTasksMap>>
                                /\ tasks'[t].state = "undefined"]_vars
    /\ [][\A key \in TaskKeys :
              (IsLoadCall(key) /\ Entry(key) # 0 /\ tasks[Entry(key)].load = "rejected")
                  => /\ lastOp'.ret = Entry(key) /\ ~lastOp'.fresh
                     /\ tasks[Entry(key)].state = "undefined"
                     /\ tasks' = tasks
                     /\ UNCHANGED <<motionTasksMap, expressionTasksMap>>]_vars
    /\ [](\A key \in TaskKeys :
              Entry(key) # 0 => /\ KeyOf(Entry(key)) = key
                                /\ tasks[Entry(key)].load # "resolved")
    /\ [](\A t \in DOMAIN tasks :
              (~busyDestroyed[tasks[t].mgr] /\ tasks[t].load = "pending")
                  => Entry(KeyOf(t)) = t)

C17_Witness ==
    /\ lastOp.op = "loadMotion" /\ ~lastOp.fresh /\ lastOp.ret > 0
    /\ tasks[lastOp.ret].load = "rejected"
    /\ \E t \in DOMAIN tasks : tasks[t].load = "resolved" /\ Entry(KeyOf(t)) = 0

\* C18 as stated: the completion of a motion load task changes no entry but its
\* own: it deletes no entry that holds another task's promise, leaves the
\* entries of all other keys as they are, and creates no task map for a
\* manager that has none.
C18_AsStated ==
    [][\A t \in DOMAIN tasks :
           (/\ tasks[t].mgr \in MotionManagers
            /\ tasks[t].load = "pending" /\ tasks'[t].load # "pending")
               => /\ \A key \in TaskKeys :
                         Entry(key)' # Entry(key) => (key = KeyOf(t) /\ Entry(key) = t)
                  /\ \A m \in MotionManagers :
                         /\ motionTasksMap'[m].has = motionTasksMap[m].has
                         /\ \A group \in MotionGroups :
                                motionTasksMap'[m].groups[group].has
                                    = motionTasksMap[m].groups[group].has]_vars

(***************************************************************************)
(* Claims about the parameters in Cubism2InternalModel.update              *)
(***************************************************************************)
\* C19: in every update() call the eye blink is updated exactly if an eyeBlink
\* object exists and motionManager.update returned false, and then the core
\* model sees what the eye blink wrote, else the saved value; updateFocus and
\* updateNaturalMovements run once in every call.
C19_EyeBlinkUnlessMotion ==
    [][frames' # frames =>
          /\ InFrame("eyeBlink.update")'
                 <=> ("eyeBlink" \in parts /\ ~lastUpdate'.motionUpdated)
          /\ ~InFrame("eyeBlink.update")'
                 => drawn'["PARAM_EYE_L_OPEN"] = savedParams'["PARAM_EYE_L_OPEN"]
          /\ StepCount("updateFocus")' = 1
          /\ StepCount("updateNaturalMovements")' = 1]_vars

C19_Witness ==
    /\ frames > 0
    /\ lastUpdate.motionUpdated
    /\ "eyeBlink" \in parts
    /\ ~InFrame("eyeBlink.update")
    /\ InFrame("updateFocus") /\ InFrame("updateNaturalMovements")

\* What updateFocus and updateNaturalMovements together add to a parameter
Adjustment(id, at, now) ==
    CASE id = "PARAM_EYE_BALL_X"   -> at[1] * Unit
      [] id = "PARAM_EYE_BALL_Y"   -> at[2] * Unit
      [] id = "PARAM_ANGLE_X"      -> 30 * at[1] * Unit + 15 * Sin(now, "6.5345")
      [] id = "PARAM_ANGLE_Y"      -> 30 * at[2] * Unit + 8 * Sin(now, "3.5345")
      [] id = "PARAM_ANGLE_Z"      -> (-30) * at[1] * at[2] * Unit + 10 * Sin(now, "5.5345")
      [] id = "PARAM_BODY_ANGLE_X" -> 10 * at[1] * Unit + 4 * Sin(now, "15.5345")
      [] OTHER -> 0

Adjusted == {"PARAM_EYE_BALL_X", "PARAM_EYE_BALL_Y", "PARAM_ANGLE_X", "PARAM_ANGLE_Y",
             "PARAM_ANGLE_Z", "PARAM_BODY_ANGLE_X"}

\* C20: after init and after every update() the parameters are the saved ones,
\* an update() in which no motion was updated leaves them as they were, and
\* what coreModel.update sees of the angle, body-angle and eyeball parameters
\* is the saved value plus the adjustment for this call's focus and time; so
\* a call with the focus and time of the call before and no motion update shows
\* coreModel.update the same values again.
C20_NoAccumulation ==
    /\ [](params = savedParams)
    /\ [][frames' # frames =>
              /\ ~lastUpdate'.motionUpdated => params' = params
              /\ \A id \in Adjusted :
                     drawn'[id] = savedParams'[id] + Adjustment(id, focus', lastUpdate'.now)
              /\ (/\ frames > 0 /\ ~lastUpdate'.motionUpdated
                  /\ focus' = focus /\ lastUpdate'.now = lastUpdate.now)
                     => \A id \in Adjusted : drawn'[id] = drawn[id]]_vars

C20_Witness ==
    /\ frames = MaxFrames
    /\ ~lastUpdate.motionUpdated
    /\ focus = <<-1, 1>>
    /\ drawn["PARAM_ANGLE_Z"] = params["PARAM_ANGLE_Z"] + 30 * Unit + 10 * Sin(lastUpdate.now, "5.5345")
    /\ params["PARAM_ANGLE_X"] = Unit

(***************************************************************************)
(* Cubism2MotionManager (src/src/cubism2/Cubism2MotionManager.ts).  The    *)
(* manager drives the core's MotionQueueManager: stopAllMotions() empties  *)
(* the queue, startMotion(motion) appends an entry and returns its number, *)
(* updateParam(model) advances the entries, drops the finished ones and    *)
(* tells whether a motion wrote parameters, isFinished() tells whether no  *)
(* entry is left.                                                          *)
(***************************************************************************)
MaxMotions == 2   \* createMotion calls in one behaviour
MaxStarts  == 3   \* _startMotion calls in one behaviour

\* '@/cubism-common/constants', line 1
MOTION_FADING_DURATION == 500

\* Values a motion definition gives fade_in and fade_out, when it has them
FadeValues == {-100, 0, 800}

Optional(field, values) == {<<>>} \cup {[f \in {field} |-> v] : v \in values}

\* Cubism2Spec.Motion, as far as createMotion reads it
Cubism2Motions ==
    {a @@ b : a \in Optional("fade_in", FadeValues), b \in Optional("fade_out", FadeValues)}

\* definition.fade_in! > 0: false when the field is undefined
GreaterThanZero(definition, field) ==
    IF field \in DOMAIN definition THEN definition[field] > 0 ELSE FALSE

\* The onFinish argument of _startMotion: 0 is undefined, 1 a callback
OnFinishHandlers == {0, 1}

\* Mutant of createMotion: fade_out taken from fade_in's test.
createMotionOneTest(definition) ==
    [fadeIn  |-> IF GreaterThanZero(definition, "fade_in")
                 THEN definition["fade_in"] ELSE MOTION_FADING_DURATION,
     fadeOut |-> IF GreaterThanZero(definition, "fade_in") /\ "fade_out" \in DOMAIN definition
                 THEN definition["fade_out"] ELSE MOTION_FADING_DURATION,
     onFinishHandler |-> 0]

\* Lines 40-47
createMotion(definition) ==
    [fadeIn  |-> IF GreaterThanZero(definition, "fade_in")
                 THEN definition["fade_in"] ELSE MOTION_FADING_DURATION,
     fadeOut |-> IF GreaterThanZero(definition, "fade_out")
                 THEN definition["fade_out"] ELSE MOTION_FADING_DURATION,
     onFinishHandler |-> 0]

\* queueManager.stopAllMotions()
stopAllMotions(qm) == [qm EXCEPT !.motions = <<>>]

\* queueManager.startMotion(motion); the entry's number is qm.made afterwards
startMotion(qm, motion) ==
    [qm EXCEPT !.made = @ + 1,
               !.motions = Append(@, [no |-> qm.made + 1, motion |-> motion])]

\* queueManager.isFinished()
queueIsFinished(qm) == qm.motions = <<>>

\* queueManager.updateParam(model), the entries in `finished` ending in this frame
updateParam(qm, finished) ==
    [queueManager |-> [qm EXCEPT !.motions = SelectSeq(@, LAMBDA e : e.no \notin finished)],
     updated |-> qm.motions # <<>>]

\* Lines 36-38
isFinished(qm) ==
    queueIsFinished(qm)

\* Mutant of _startMotion: line 64 left out.
startMotionUnstopped(ms, qm, motion, onFinish) ==
    [motions |-> [ms EXCEPT ![motion].onFinishHandler = onFinish],
     queueManager |-> startMotion(qm, motion),
     returned |-> qm.made + 1]

\* Lines 61-67: _startMotion(motion, onFinish)
_startMotion(ms, qm, motion, onFinish) ==
    [motions |-> [ms EXCEPT ![motion].onFinishHandler = onFinish],
     queueManager |-> startMotion(stopAllMotions(qm), motion),
     returned |-> LET stopped == stopAllMotions(qm) IN stopped.made + 1]

\* Lines 69-71
_stopAllMotions(qm) ==
    stopAllMotions(qm)

\* Lines 73-75
updateMotion(qm, finished) == updateParam(qm, finished)

MgrCall(op, args, returned, native) ==
    [op |-> op, args |-> args, returned |-> <<returned>>, native |-> <<native>>]

CreateMotion(definition) ==
    /\ Len(motions) < MaxMotions
    /\ motions' = Append(motions, createMotion(definition))
    /\ mgrCall' = MgrCall("createMotion", definition, Len(motions) + 1, 0)
    /\ UNCHANGED <<queueManager, pipeVars, taskVars, updVars, glVars>>

StartMotion(motion, onFinish) ==
    /\ queueManager.made < MaxStarts
    /\ \E r \in {_startMotion(motions, queueManager, motion, onFinish)} :
           /\ motions' = r.motions
           /\ queueManager' = r.queueManager
           /\ mgrCall' = MgrCall("_startMotion", <<motion, onFinish>>, r.returned,
                                 queueManager.made + 1)
    /\ UNCHANGED <<pipeVars, taskVars, updVars, glVars>>

StopAllMotions ==
    /\ queueManager' = _stopAllMotions(queueManager)
    /\ mgrCall' = MgrCall("_stopAllMotions", <<>>, 0, 0)
    /\ UNCHANGED <<motions, pipeVars, taskVars, updVars, glVars>>

IsFinished ==
    /\ mgrCall' = MgrCall("isFinished", <<>>, isFinished(queueManager),
                          queueIsFinished(queueManager))
    /\ UNCHANGED <<motions, queueManager, pipeVars, taskVars, updVars, glVars>>

UpdateMotion ==
    /\ \E finished \in SUBSET {queueManager.motions[i].no : i \in DOMAIN queueManager.motions} :
           \E r \in {updateMotion(queueManager, finished)} :
               /\ queueManager' = r.queueManager
               /\ mgrCall' = MgrCall("updateMotion", <<>>, r.updated,
                                     queueManager.motions # <<>>)
    /\ UNCHANGED <<motions, pipeVars, taskVars, updVars, glVars>>

MotionNext ==
    \/ \E definition \in Cubism2Motions : CreateMotion(definition)
    \/ \E motion \in DOMAIN motions, onFinish \in OnFinishHandlers :
           StartMotion(motion, onFinish)
    \/ StopAllMotions
    \/ IsFinished
    \/ UpdateMotion

\* After the constructor (lines 20-26): `readonly queueManager = new MotionQueueManager()`
InitMotion ==
    /\ runtimes = <<>>
    /\ rtReady = [r \in RuntimeIds |-> FALSE]
    /\ srcArg = CHOOSE src \in Sources : src.kind = "other"
    /\ pc = "idle"
    /\ ctx = [source |-> srcArg, settings |-> NoSettings, internalModel |-> NoInternalModel]
    /\ live2dModel = [internalModel |-> None, textures |-> None]
    /\ textureLoadings = <<>>
    /\ promises = [textureLoaded |-> FALSE, modelLoaded |-> FALSE, ready |-> "pending"]
    /\ locals = [jsonAt |-> 0, readyAt |-> 0, readyRt |-> 0, createAt |-> 0,
                 createRt |-> 0, optRt |-> 0]
    /\ log = <<>>
    /\ result = "pending"
    /\ motionTasksMap = <<>>
    /\ expressionTasksMap = <<>>
    /\ destroyListeners = <<>>
    /\ tasks = <<>>
    /\ lastOp = None
    /\ busyDestroyed = <<>>
    /\ params = <<>>
    /\ savedParams = <<>>
    /\ parts = {}
    /\ focus = <<0, 0>>
    /\ frame = <<>>
    /\ drawn = <<>>
    /\ lastUpdate = None
    /\ frames = 0
    /\ motions = <<>>
    /\ queueManager = [motions |-> <<>>, made |-> 0]
    /\ mgrCall = MgrCall("constructor", <<>>, 0, 0)
    /\ context = 0
    /\ drawParamWebGL = None
    /\ clipManager = None
    /\ arrays = <<>>
    /\ modelCall = None

SpecMotion == InitMotion /\ [][MotionNext]_vars

(***************************************************************************)
(* Claims about Cubism2MotionManager                                       *)
(***************************************************************************)
\* The entry the latest _startMotion call made, if it is still in the queue
LatestStarted == {e \in {queueManager.motions[i] : i \in DOMAIN queueManager.motions} :
                     e.no = queueManager.made}

\* C22: the queue never holds more than one entry, and only the one the latest
\* _startMotion call made; a _startMotion call leaves the onFinish callback on
\* the motion and the motion alone in the queue; isFinished() and
\* updateMotion() return what the queue manager's isFinished() and
\* updateParam() returned.
C22_OneMotionPlaying ==
    /\ [](/\ Len(queueManager.motions) <= 1
          /\ \A i \in DOMAIN queueManager.motions : queueManager.motions[i] \in LatestStarted
          /\ mgrCall.op \in {"isFinished", "updateMotion"}
                 => mgrCall.returned = mgrCall.native)
    /\ [][queueManager'.made # queueManager.made =>
              /\ mgrCall'.op = "_startMotion"
              /\ LET motion == mgrCall'.args[1]
                     onFinish == mgrCall'.args[2]
                 IN  /\ motions'[motion].onFinishHandler = onFinish
                     /\ queueManager'.motions =
                            <<[no |-> queueManager'.made, motion |-> motion]>>
                     /\ mgrCall'.returned = <<queueManager'.made>>]_vars

C22_Witness ==
    /\ queueManager.made = MaxStarts
    /\ Len(queueManager.motions) = 1
    /\ queueManager.motions[1].no = MaxStarts
    /\ motions[queueManager.motions[1].motion].onFinishHandler = 1
    /\ mgrCall.op = "isFinished"
    /\ mgrCall.returned = <<FALSE>>

\* What createMotion is to make of one of the two fade fields
Fade(definition, field) ==
    IF field \in DOMAIN definition /\ definition[field] > 0
    THEN definition[field]
    ELSE MOTION_FADING_DURATION

\* C23: createMotion gives the motion the definition's fade_in when that is
\* greater than 0 and MOTION_FADING_DURATION otherwise, and likewise and
\* independently fade_out; every created motion has positive fades.
C23_PositiveFades ==
    /\ [](\A m \in DOMAIN motions : motions[m].fadeIn > 0 /\ motions[m].fadeOut > 0)
    /\ [][Len(motions') # Len(motions) =>
              /\ mgrCall'.op = "createMotion"
              /\ motions'[Len(motions')].fadeIn = Fade(mgrCall'.args, "fade_in")
              /\ motions'[Len(motions')].fadeOut = Fade(mgrCall'.args, "fade_out")]_vars

C23_Witness ==
    /\ mgrCall.op = "createMotion"
    /\ DOMAIN mgrCall.args = {"fade_in", "fade_out"}
    /\ mgrCall.args["fade_in"] = -100 /\ mgrCall.args["fade_out"] = 800
    /\ motions[Len(motions)].fadeIn = MOTION_FADING_DURATION
    /\ motions[Len(motions)].fadeOut = 800

(***************************************************************************)
(* Cubism2InternalModel.updateFocus called on its own (it is public), with *)
(* the focus controller moving between the calls.                          *)
(***************************************************************************)
MaxFocusUpdates == 2   \* updateFocus calls in one behaviour

UpdateFocus ==
    /\ modelCall.n < MaxFocusUpdates
    /\ \E st \in {updateFocus(Running(params, savedParams), focus)} :
           params' = st.coreModel.params
    /\ modelCall' = [op |-> "updateFocus", n |-> modelCall.n + 1]
    /\ UNCHANGED <<savedParams, parts, focus, frame, drawn, lastUpdate, frames, context,
                   drawParamWebGL, clipManager, arrays, pipeVars, taskVars, mgrVars>>

\* focusController.x / focusController.y change (FocusController.update, by super.update)
FocusMoves(at) ==
    /\ at # focus
    /\ focus' = at
    /\ modelCall' = [modelCall EXCEPT !.op = "focus"]
    /\ UNCHANGED <<params, savedParams, parts, frame, drawn, lastUpdate, frames, context,
                   drawParamWebGL, clipManager, arrays, pipeVars, taskVars, mgrVars>>

FocusNext ==
    \/ UpdateFocus
    \/ \E at \in FocusPositions : FocusMoves(at)

InitFocus ==
    /\ runtimes = <<>>
    /\ rtReady = [r \in RuntimeIds |-> FALSE]
    /\ srcArg = CHOOSE src \in Sources : src.kind = "other"
    /\ pc = "idle"
    /\ ctx = [source |-> srcArg, settings |-> NoSettings, internalModel |-> NoInternalModel]
    /\ live2dModel = [internalModel |-> None, textures |-> None]
    /\ textureLoadings = <<>>
    /\ promises = [textureLoaded |-> FALSE, modelLoaded |-> FALSE, ready |-> "pending"]
    /\ locals = [jsonAt |-> 0, readyAt |-> 0, readyRt |-> 0, createAt |-> 0,
                 createRt |-> 0, optRt |-> 0]
    /\ log = <<>>
    /\ result = "pending"
    /\ motionTasksMap = <<>>
    /\ expressionTasksMap = <<>>
    /\ destroyListeners = <<>>
    /\ tasks = <<>>
    /\ lastOp = None
    /\ busyDestroyed = <<>>
    /\ \E initial \in Written :
           params = [id \in ParamIds |-> IF id = "PARAM_ANGLE_X" THEN initial ELSE 0]
    /\ savedParams = params
    /\ parts = {"eyeBlink"}
    /\ focus \in FocusPositions
    /\ frame = <<>>
    /\ drawn = params
    /\ lastUpdate = [now |-> 0, motionUpdated |-> FALSE]
    /\ frames = 0
    /\ motions = <<>>
    /\ queueManager = None
    /\ mgrCall = None
    /\ context = 0
    /\ drawParamWebGL = None
    /\ clipManager = None
    /\ arrays = <<>>
    /\ modelCall = [op |-> "constructor", n |-> 0]

SpecFocus == InitFocus /\ [][FocusNext]_vars

\* What lines 193-198 add to each parameter for the focus position `at`
FocusAdds(id, at) ==
    CASE id = "PARAM_EYE_BALL_X"   -> at[1] * Unit
      [] id = "PARAM_EYE_BALL_Y"   -> at[2] * Unit
      [] id = "PARAM_ANGLE_X"      -> 30 * at[1] * Unit
      [] id = "PARAM_ANGLE_Y"      -> 30 * at[2] * Unit
      [] id = "PARAM_ANGLE_Z"      -> (-30) * at[1] * at[2] * Unit
      [] id = "PARAM_BODY_ANGLE_X" -> 10 * at[1] * Unit
      [] OTHER -> 0

\* C21: an updateFocus call adds x, y, 30x, 30y, -30xy and 10x to the eyeball,
\* angle and body-angle parameters and nothing to any other parameter; with
\* the focus at (0, 0) it changes no parameter.
C21_FocusAdditions ==
    [][modelCall'.n # modelCall.n =>
          /\ \A id \in ParamIds : params'[id] = params[id] + FocusAdds(id, focus)
          /\ focus = <<0, 0>> => params' = params]_vars

C21_Witness ==
    /\ modelCall.op = "updateFocus"
    /\ modelCall.n = MaxFocusUpdates
    /\ focus = <<-1, 1>>
    /\ params["PARAM_ANGLE_Z"] = 60 * Unit
    /\ params["PARAM_EYE_BALL_X"] = (-2) * Unit
    /\ params["PARAM_BREATH"] = 0

(***************************************************************************)
(* Cubism2InternalModel.updateWebGLContext and draw, with a renderer whose *)
(* WebGL context is lost and restored (test/module/compat.test.js, lines   *)
(* 76-93).  Contexts are numbered; a WebGLBuffer is named by the context   *)
(* it was created in.  The core's draw() creates the buffers it lacks in   *)
(* drawParamWebGL's gl, and fails on a gl that is not the renderer's, on a *)
(* buffer of another context and on a glno the clip manager has no mask    *)
(* texture for.                                                            *)
(***************************************************************************)
MaxContexts == 3   \* WebGL contexts the renderer has had in one behaviour

\* The properties `for (const prop in drawParamWebGL)` visits: three of its
\* own, two of which hold buffers, and one inherited from its prototype
DrawParamProps == {"buffer1", "buffer2", "number", "method"}

\* Values of a property: 0 is null, n > 0 a WebGLBuffer of context n, -1
\* anything that is no WebGLBuffer
NotABuffer == -1

\* drawParamWebGL.hasOwnProperty(prop)
hasOwnProperty(prop) == prop # "method"

\* value instanceof WebGLBuffer
IsWebGLBuffer(value) == value > 0

\* drawParamWebGL.setGL(gl)
setGL(dp, gl) == [dp EXCEPT !.gl = gl]

\* clipManager.getMaskRenderTexture(): the mask texture of curFrameNo exists afterwards
getMaskRenderTexture(cm) == [cm EXCEPT !.masks = @ \cup {cm.curFrameNo}]

\* Mutant of updateWebGLContext: lines 97-102 left out.
updateWebGLContextKeepsBuffers(dp, cm, gl, glContextID) ==
    [drawParamWebGL |-> [setGL([dp EXCEPT !.firstDraw = TRUE], gl) EXCEPT !.glno = glContextID],
     clipManager |-> getMaskRenderTexture([cm EXCEPT !.curFrameNo = glContextID])]

\* Lines 90-108
updateWebGLContext(dp, cm, gl, glContextID) ==
    [drawParamWebGL |->
         [setGL([dp EXCEPT !.firstDraw = TRUE], gl) EXCEPT
             !.glno = glContextID,
             !.props = [prop \in DOMAIN @ |->
                            IF hasOwnProperty(prop) /\ IsWebGLBuffer(@[prop])
                            THEN 0 ELSE @[prop]]],
     clipManager |-> getMaskRenderTexture([cm EXCEPT !.curFrameNo = glContextID])]

\* Does coreModel.draw() fail, line 224
DrawFails(dp, cm, current) ==
    \/ dp.gl # current
    \/ \E prop \in DOMAIN dp.props : IsWebGLBuffer(dp.props[prop]) /\ dp.props[prop] # dp.gl
    \/ dp.glno \notin cm.masks

\* Lines 212-225, when coreModel.draw() succeeds
draw(dp) ==
    [dp EXCEPT !.firstDraw = FALSE,
               !.props = [prop \in DOMAIN @ |-> IF @[prop] = 0 THEN dp.gl ELSE @[prop]]]

\* The WEBGL_lose_context extension's loseContext() and restoreContext()
ContextRestored ==
    /\ context < MaxContexts
    /\ context' = context + 1
    /\ modelCall' = [op |-> "webglcontextrestored", gl |-> context + 1, id |-> 0,
                     reset |-> {}, threw |-> FALSE]
    /\ UNCHANGED <<drawParamWebGL, clipManager, arrays, pipeVars, taskVars, updVars, mgrVars>>

UpdateWebGLContext(gl, glContextID) ==
    /\ \E r \in {updateWebGLContext(drawParamWebGL, clipManager, gl, glContextID)} :
           /\ drawParamWebGL' = r.drawParamWebGL
           /\ clipManager' = r.clipManager
    /\ modelCall' = [op |-> "updateWebGLContext", gl |-> gl, id |-> glContextID,
                     reset |-> {prop \in DrawParamProps :
                                    /\ hasOwnProperty(prop)
                                    /\ IsWebGLBuffer(drawParamWebGL.props[prop])},
                     threw |-> FALSE]
    /\ UNCHANGED <<context, arrays, pipeVars, taskVars, updVars, mgrVars>>

Draw ==
    /\ \E fails \in {DrawFails(drawParamWebGL, clipManager, context)} :
           /\ drawParamWebGL' = IF fails THEN drawParamWebGL ELSE draw(drawParamWebGL)
           /\ modelCall' = [op |-> "draw", gl |-> drawParamWebGL.gl,
                            id |-> drawParamWebGL.glno, reset |-> {}, threw |-> fails]
    /\ UNCHANGED <<context, clipManager, arrays, pipeVars, taskVars, updVars, mgrVars>>

ContextNext ==
    \/ ContextRestored
    \/ \E gl \in 1..context, glContextID \in 1..MaxContexts :
           UpdateWebGLContext(gl, glContextID)
    \/ Draw

InitContext ==
    /\ runtimes = <<>>
    /\ rtReady = [r \in RuntimeIds |-> FALSE]
    /\ srcArg = CHOOSE src \in Sources : src.kind = "other"
    /\ pc = "idle"
    /\ ctx = [source |-> srcArg, settings |-> NoSettings, internalModel |-> NoInternalModel]
    /\ live2dModel = [internalModel |-> None, textures |-> None]
    /\ textureLoadings = <<>>
    /\ promises = [textureLoaded |-> FALSE, modelLoaded |-> FALSE, ready |-> "pending"]
    /\ locals = [jsonAt |-> 0, readyAt |-> 0, readyRt |-> 0, createAt |-> 0,
                 createRt |-> 0, optRt |-> 0]
    /\ log = <<>>
    /\ result = "pending"
    /\ motionTasksMap = <<>>
    /\ expressionTasksMap = <<>>
    /\ destroyListeners = <<>>
    /\ tasks = <<>>
    /\ lastOp = None
    /\ busyDestroyed = <<>>
    /\ params = <<>>
    /\ savedParams = <<>>
    /\ parts = {}
    /\ focus = <<0, 0>>
    /\ frame = <<>>
    /\ drawn = <<>>
    /\ lastUpdate = None
    /\ frames = 0
    /\ motions = <<>>
    /\ queueManager = None
    /\ mgrCall = None
    /\ context = 1
    /\ drawParamWebGL = [firstDraw |-> TRUE, gl |-> 0, glno |-> 0,
                         props |-> [prop \in DrawParamProps |->
                                        IF prop \in {"buffer1", "buffer2"} THEN 0
                                        ELSE NotABuffer]]
    /\ clipManager = [curFrameNo |-> 0, masks |-> {}]
    /\ arrays = <<>>
    /\ modelCall = [op |-> "constructor", gl |-> 0, id |-> 0, reset |-> {}, threw |-> FALSE]

SpecContext == InitContext /\ [][ContextNext]_vars

\* C24: after updateWebGLContext(gl, id) the draw parameters have firstDraw
\* set, gl as their gl and id as their glno, none of their own properties holds
\* a WebGLBuffer (those that did are null), and the clip manager's curFrameNo
\* is id; a draw() that follows a call with the renderer's gl does not fail.
C24_ContextRestored ==
    /\ [](modelCall.op = "updateWebGLContext" =>
              /\ drawParamWebGL.firstDraw
              /\ drawParamWebGL.gl = modelCall.gl
              /\ drawParamWebGL.glno = modelCall.id
              /\ \A prop \in DrawParamProps :
                     hasOwnProperty(prop) => ~IsWebGLBuffer(drawParamWebGL.props[prop])
              /\ \A prop \in modelCall.reset : drawParamWebGL.props[prop] = 0
              /\ clipManager.curFrameNo = modelCall.id)
    /\ [][(/\ modelCall.op = "updateWebGLContext"
           /\ modelCall.gl = context
           /\ modelCall'.op = "draw") => ~modelCall'.threw]_vars

C24_Witness ==
    /\ modelCall.op = "updateWebGLContext"
    /\ context = MaxContexts
    /\ modelCall.gl = context
    /\ modelCall.reset = {"buffer1", "buffer2"}
    /\ drawParamWebGL.props["buffer1"] = 0

(***************************************************************************)
(* Cubism2InternalModel.getDrawableVertices.  A Float32Array is named by   *)
(* its place in arrays.data; the core model owns the first ones, one per   *)
(* drawable, and getTransformedPoints(index) hands out the core's own      *)
(* array, or null when there is no such drawable.                          *)
(***************************************************************************)
MaxCopies == 2   \* arrays getDrawableVertices returns in one behaviour

\* The drawables of the core model, by ID; their indices are 0 and 1
DrawableIDs == <<"D_A", "D_B">>

\* The core model's transformed points, per drawable
CorePoints == <<(<<10, 11>>), (<<20, 21>>)>>

CoreArrays == DOMAIN CorePoints

\* Arguments of getDrawableVertices: drawIndex as a string or as a number
DrawIndexes ==
    {[type |-> "string", id |-> id, index |-> 0] : id \in {"D_A", "D_B", "D_X"}}
        \cup {[type |-> "number", id |-> "", index |-> i] : i \in {-1, 0, 1, 2}}

\* coreModel.getDrawDataIndex(id)
getDrawDataIndex(id) ==
    IF \E i \in DOMAIN DrawableIDs : DrawableIDs[i] = id
    THEN (CHOOSE i \in DOMAIN DrawableIDs : DrawableIDs[i] = id) - 1
    ELSE -1

\* coreModel.getTransformedPoints(index): the core's array, 0 for null
getTransformedPoints(index) == IF index + 1 \in CoreArrays THEN index + 1 ELSE 0

\* Float32Array.prototype.slice(): a new array with the same numbers
slice(as, array) ==
    [arrays |-> [as EXCEPT !.data = Append(@, as.data[array]),
                           !.given = @ \cup {Len(as.data) + 1}],
     value |-> Len(as.data) + 1]

Thrown(as, line) == [arrays |-> as, value |-> 0, threw |-> "TypeError", line |-> line]

Returned(r) == [arrays |-> r.arrays, value |-> r.value, threw |-> "", line |-> 160]

\* Mutant of getDrawableVertices: line 160 without .slice().
getDrawableVerticesShared(as, drawIndex) ==
    LET index == IF drawIndex.type = "string" THEN getDrawDataIndex(drawIndex.id)
                 ELSE drawIndex.index
        points == getTransformedPoints(index)
    IN  IF drawIndex.type = "string" /\ index = -1 THEN Thrown(as, 157)
        ELSE IF points = 0 THEN Thrown(as, 160)
        ELSE Returned([arrays |-> [as EXCEPT !.given = @ \cup {points}], value |-> points])

\* Lines 153-161; `null.slice()` at line 160 is a TypeError too
getDrawableVertices(as, drawIndex) ==
    LET index == IF drawIndex.type = "string" THEN getDrawDataIndex(drawIndex.id)
                 ELSE drawIndex.index
        points == getTransformedPoints(index)
    IN  IF drawIndex.type = "string" /\ index = -1 THEN Thrown(as, 157)
        ELSE IF points = 0 THEN Thrown(as, 160)
        ELSE Returned(slice(as, points))

GetDrawableVertices(drawIndex) ==
    /\ Len(arrays.data) < Len(CorePoints) + MaxCopies
    /\ \E r \in {getDrawableVertices(arrays, drawIndex)} :
           /\ arrays' = r.arrays
           /\ modelCall' = [op |-> "getDrawableVertices", drawIndex |-> drawIndex,
                            value |-> r.value, threw |-> r.threw, line |-> r.line]
    /\ UNCHANGED <<context, drawParamWebGL, clipManager, pipeVars, taskVars, updVars, mgrVars>>

\* The application writes into an array it was given
WriteArray(array, i, number) ==
    /\ arrays.data[array][i] # number
    /\ arrays' = [arrays EXCEPT !.data[array][i] = number]
    /\ modelCall' = [modelCall EXCEPT !.op = "write"]
    /\ UNCHANGED <<context, drawParamWebGL, clipManager, pipeVars, taskVars, updVars, mgrVars>>

VerticesNext ==
    \/ \E drawIndex \in DrawIndexes : GetDrawableVertices(drawIndex)
    \/ \E array \in arrays.given : \E i \in DOMAIN arrays.data[array] :
           WriteArray(array, i, 99)

InitVertices ==
    /\ runtimes = <<>>
    /\ rtReady = [r \in RuntimeIds |-> FALSE]
    /\ srcArg = CHOOSE src \in Sources : src.kind = "other"
    /\ pc = "idle"
    /\ ctx = [source |-> srcArg, settings |-> NoSettings, internalModel |-> NoInternalModel]
    /\ live2dModel = [internalModel |-> None, textures |-> None]
    /\ textureLoadings = <<>>
    /\ promises = [textureLoaded |-> FALSE, modelLoaded |-> FALSE, ready |-> "pending"]
    /\ locals = [jsonAt |-> 0, readyAt |-> 0, readyRt |-> 0, createAt |-> 0,
                 createRt |-> 0, optRt |-> 0]
    /\ log = <<>>
    /\ result = "pending"
    /\ motionTasksMap = <<>>
    /\ expressionTasksMap = <<>>
    /\ destroyListeners = <<>>
    /\ tasks = <<>>
    /\ lastOp = None
    /\ busyDestroyed = <<>>
    /\ params = <<>>
    /\ savedParams = <<>>
    /\ parts = {}
    /\ focus = <<0, 0>>
    /\ frame = <<>>
    /\ drawn = <<>>
    /\ lastUpdate = None
    /\ frames = 0
    /\ motions = <<>>
    /\ queueManager = None
    /\ mgrCall = None
    /\ context = 0
    /\ drawParamWebGL = None
    /\ clipManager = None
    /\ arrays = [data |-> CorePoints, given |-> {}]
    /\ modelCall = [op |-> "constructor", drawIndex |-> [type |-> "number", id |-> "", index |-> 0],
                    value |-> 0, threw |-> "", line |-> 0]

SpecVertices == InitVertices /\ [][VerticesNext]_vars

(***************************************************************************)
(* Claims about getDrawableVertices                                        *)
(***************************************************************************)
Calling == modelCall'.op = "getDrawableVertices" /\ modelCall' # modelCall

KnownID(drawIndex) ==
    drawIndex.type = "string" /\ \E i \in DOMAIN DrawableIDs : DrawableIDs[i] = drawIndex.id

\* The core's array of the drawable a call names
Named(drawIndex) ==
    IF drawIndex.type = "string"
    THEN CHOOSE i \in DOMAIN DrawableIDs : DrawableIDs[i] = drawIndex.id
    ELSE drawIndex.index + 1

\* The call returned a new array holding the numbers of the drawable's points
ReturnsCopy ==
    /\ modelCall'.threw = ""
    /\ modelCall'.value \notin DOMAIN arrays.data
    /\ arrays'.data[modelCall'.value] = arrays.data[Named(modelCall'.drawIndex)]

ThrowsTypeError == modelCall'.threw = "TypeError" /\ arrays' = arrays

CoreUntouched == \A array \in CoreArrays : arrays'.data[array] = arrays.data[array]

\* C25 as stated: an unknown string ID throws a TypeError, a known ID or any
\* numeric index returns a copy, and no step alters the core's vertex data.
C25_AsStated ==
    [][/\ Calling =>
              /\ (modelCall'.drawIndex.type = "string" /\ ~KnownID(modelCall'.drawIndex))
                     => ThrowsTypeError
              /\ (KnownID(modelCall'.drawIndex) \/ modelCall'.drawIndex.type = "number")
                     => ReturnsCopy
       /\ CoreUntouched]_vars

\* C25: an unknown string ID throws a TypeError, a known ID or the numeric
\* index of a drawable returns a copy of the core's transformed points, and no
\* step, a write into a returned array included, alters the core's vertex data.
C25_CopiedVertices ==
    [][/\ Calling =>
              /\ (modelCall'.drawIndex.type = "string" /\ ~KnownID(modelCall'.drawIndex))
                     => ThrowsTypeError
              /\ (\/ KnownID(modelCall'.drawIndex)
                  \/ /\ modelCall'.drawIndex.type = "number"
                     /\ modelCall'.drawIndex.index + 1 \in CoreArrays)
                     => ReturnsCopy
       /\ CoreUntouched]_vars

C25_Witness ==
    /\ modelCall.op = "write"
    /\ modelCall.drawIndex = [type |-> "string", id |-> "D_B", index |-> 0]
    /\ modelCall.value \in arrays.given
    /\ arrays.data[modelCall.value] = <<20, 99>>
    /\ arrays.data[2] = <<20, 21>>

====
